---- MODULE Spec2Model ----
(***************************************************************************)
(* The management portal's client-side state machine: the session holder,  *)
(* the in-memory entity stores, the visibility resolver, the command       *)
(* handlers and the notification ledger of src/App.tsx (the App component  *)
(* of lines 467-1010) together with the ClientPortal component that the    *)
(* App renders for a CLIENT and the InternalDashboard it renders for an     *)
(* OWNER or a MANAGER (src/unnamed/part_007), the Auth screen               *)
(* (src/components/Auth.tsx) and the guards of the service functions        *)
(* (src/services/databaseService.ts, src/lib/supabaseClient.ts).            *)
(*                                                                         *)
(* A handler that awaits the persistence provider is split at its awaits:  *)
(* the step up to the await puts the call in `pending`, and the step that  *)
(* receives the provider's answer runs the rest of the handler with the    *)
(* values its closure captured.  The provider is the environment: its      *)
(* answers are inputs of the completion steps.                             *)
(*                                                                         *)
(* Two more variants of the App are in the repository and have sections of *)
(* their own: the one that reports through toasts (src/App.tsx:1-465) and  *)
(* the self-contained one with stubbed services (src/unnamed/part_000).    *)
(***************************************************************************)
EXTENDS Integers, Sequences, FiniteSets, TLC

VARIABLES
    currentUser,      \* useState<User | null>            App.tsx:468
    isLoadingAuth,    \* useState(true)                   App.tsx:484
    users,            \* useState<User[]>([])             App.tsx:469
    projects,         \* useState<Project[]>              App.tsx:470
    stats,            \* useState<ProjectStats[]>         App.tsx:471
    tasks,            \* useState<Task[]>                 App.tsx:472
    events,           \* useState<CalendarEvent[]>        App.tsx:473
    messages,         \* useState<ChatMessage[]>          App.tsx:474
    clientChannels,   \* useState<ClientChannel[]>        App.tsx:477
    files,            \* useState<AppFile[]>              App.tsx:478
    notifications,    \* useState<AppNotification[]>      App.tsx:480
    chatChannels,     \* useState<ChatChannel[]>          App.tsx:476
    adminViewProject, \* useState<Project | null>(null)   App.tsx:483; <<>> is null
    activeChannel,    \* InternalChat's useState('general')   part_007:1981
    supabaseUrl,      \* the provider URL of the environment      supabaseClient.ts:7
    supabaseAnonKey,  \* the public key of the environment        supabaseClient.ts:8
    isLoading,        \* useState(true)                  part_000:370
    isAuthenticated,  \* useState(false)                 part_000:369
    isDataLoaded,     \* useState(false)                 part_000:383
    toast,            \* useState<{message, type} | null>(null)   part_000:382; <<>> is null
    pending,          \* provider calls in flight (awaited promises); a call is
                      \* not issued again while the same call is in flight
    clock,            \* Date.now() / crypto.randomUUID(): ids handed out so far
    last              \* the handler step taken last (history, read by the properties)

stores == <<users, projects, stats, tasks, events, messages, clientChannels, files,
            notifications>>
\* the internal chat: its channels and the channel that is open
chat == <<chatChannels, activeChannel>>
\* what the build was configured with; it does not change while the App runs
config == <<supabaseUrl, supabaseAnonKey>>
\* the state only the self-contained variant of the App holds (part_000:369-383)
selfContained == <<isLoading, isAuthenticated, isDataLoaded, toast>>
vars == <<currentUser, isLoadingAuth, users, projects, stats, tasks, events, messages,
          clientChannels, files, notifications, chatChannels, adminViewProject,
          activeChannel, supabaseUrl, supabaseAnonKey, isLoading, isAuthenticated,
          isDataLoaded, toast, pending, clock, last>>

----------------------------------------------------------------------------
(* Bounds of the exploration.                                              *)

\* provider calls that may be in flight at once
MaxInFlight == 2
\* ids handed out by Date.now() / crypto.randomUUID() in one run
MaxClock == 1
\* entries a list store may grow to through appends
MaxLen == 1
\* client channels created through handleCreateClientChannel
MaxChannels == 2
\* notifications the ledger may hold
MaxNotifications == 3
\* messages the messages store may grow to
MaxMessages == 2
\* tasks of one project whose title matches a query
MaxMatching == 11

----------------------------------------------------------------------------
(* Values.                                                                 *)

OWNER == "OWNER"
MANAGER == "MANAGER"
CLIENT == "CLIENT"
TEAMLEADER == "TEAMLEADER"
USER == "USER"
GUEST == "GUEST"

\* undefined / null of an optional string field
Null == "null"
\* another optional field is <<>> when undefined and <<S>> when it holds S
Undefined == <<>>
Some(S) == <<S>>
IsSet(opt) == opt # Undefined
\* opt?.includes(x): undefined (falsy) when the field is undefined
OptIncludes(opt, x) == IsSet(opt) /\ x \in opt[1]

\* currentUser === null
NoUser == [id |-> Null, role |-> Null, clientRole |-> Null, projectId |-> Null,
           assignedProjects |-> Undefined, allowedChannels |-> Undefined, lastSeen |-> Undefined]

\* ---- sequences as arrays ----
Range(s) == {s[i] : i \in DOMAIN s}

\* Array.prototype.filter
Filter(s, Test(_)) == SelectSeq(s, Test)

\* Array.prototype.findIndex, 1-based; 0 stands for -1
FindIndex(s, Test(_)) ==
    IF \E i \in DOMAIN s : Test(s[i])
    THEN CHOOSE i \in DOMAIN s : Test(s[i]) /\ \A j \in 1..(i-1) : ~Test(s[j])
    ELSE 0

\* Array.prototype.map
Map(s, F(_)) == [i \in DOMAIN s |-> F(s[i])]

\* Array.prototype.find: <<>> when nothing matches, else <<the first match>>
Find(s, Test(_)) ==
    IF FindIndex(s, Test) = 0 THEN <<>> ELSE <<s[FindIndex(s, Test)]>>

----------------------------------------------------------------------------
(* The provider's tables, as far as the client reads them.                 *)

\* rows of the `profiles` table; any other account has no row
ProfileRow(uid) ==
    CASE uid = "u1" -> Some([role |-> OWNER, client_role |-> Null, project_id |-> Null])
      [] uid = "u2" -> Some([role |-> MANAGER, client_role |-> Null, project_id |-> Null])
      [] uid = "u3" -> Some([role |-> CLIENT, client_role |-> USER, project_id |-> "p1"])
      [] uid = "u4" -> Some([role |-> CLIENT, client_role |-> GUEST, project_id |-> "p1"])
      [] uid = "u5" -> Some([role |-> Null, client_role |-> TEAMLEADER, project_id |-> "p2"])
      [] OTHER -> Undefined

\* rows of the `projects` table that exist before the session starts
DbProjects == << [id |-> "p1", name |-> "Alpha"], [id |-> "p2", name |-> "Beta"] >>

\* new Date(): the time read off `clock`; the epoch, new Date(0), is 0
Now == clock + 1

\* INITIAL_CHANNELS (App.tsx:440-442)
INITIAL_CHANNELS == << [id |-> "general", type |-> "GENERAL"] >>

\* crypto.randomUUID() / Date.now().toString(): the k-th id handed out
FreshId(k) == CASE k = 1 -> "n1" [] k = 2 -> "n2" [] k = 3 -> "n3" [] OTHER -> "n4"

----------------------------------------------------------------------------
(* Configuration (src/lib/supabaseClient.ts).                              *)

\* !!value of an environment variable: unset and empty are both false
Truthy(value) == value # Null /\ value # ""

\* the configuration test with the public key left out
urlConfigured == Truthy(supabaseUrl)

\* isSupabaseConfigured (supabaseClient.ts:11)
isSupabaseConfigured == Truthy(supabaseUrl) /\ Truthy(supabaseAnonKey)

----------------------------------------------------------------------------
(* Session holder: the identity built by the auth listener.                *)

\* mappedUser of the SIGNED_IN branch: only these columns are mapped
MappedUser(uid, profile) ==
    [id |-> uid,
     role |-> IF profile.role # Null THEN profile.role ELSE CLIENT,
     clientRole |-> profile.client_role,
     projectId |-> profile.project_id,
     assignedProjects |-> Undefined,
     allowedChannels |-> Undefined,
     lastSeen |-> Undefined]

\* fallbackUser: no profile row came back
FallbackUser(uid) ==
    [id |-> uid, role |-> CLIENT, clientRole |-> Null, projectId |-> Null,
     assignedProjects |-> Undefined, allowedChannels |-> Undefined, lastSeen |-> Undefined]

----------------------------------------------------------------------------
(* Visibility resolver.                                                    *)

\* visibleProjects with the MANAGER branch dropped: a MANAGER is shown what an
\* OWNER is shown
visibleProjectsUnfiltered(identity, allProjects) ==
    IF identity = NoUser THEN <<>>
    ELSE IF identity.role \in {OWNER, MANAGER} THEN allProjects
    ELSE <<>>

visibleProjects(identity, allProjects) ==
    IF identity = NoUser THEN <<>>
    ELSE IF identity.role = OWNER THEN allProjects
    ELSE IF identity.role = MANAGER
         THEN LET assigned(p) == OptIncludes(identity.assignedProjects, p.id)
              IN Filter(allProjects, assigned)
    ELSE <<>>

visibleProjectIds(identity, allProjects) ==
    {p.id : p \in Range(visibleProjects(identity, allProjects))}

\* visibleStats (App.tsx:636-638)
visibleStats(identity, allProjects, allStats) ==
    LET seen(st) == st.projectId \in visibleProjectIds(identity, allProjects)
    IN Filter(allStats, seen)

\* visibleUsers (App.tsx:640-649)
visibleUsers(identity, allProjects, allUsers) ==
    IF identity = NoUser \/ identity.role = OWNER THEN allUsers
    ELSE IF identity.role = MANAGER
         THEN LET seen(u) == \/ u.role = OWNER
                             \/ u.role = MANAGER
                             \/ (/\ u.projectId # Null
                                 /\ u.projectId \in visibleProjectIds(identity, allProjects))
              IN Filter(allUsers, seen)
    ELSE <<>>

\* visibleTasks, visibleFiles and visibleEvents (App.tsx:651-661) apply one
\* test: the entity is 'internal' or belongs to a visible project
visibleEntities(identity, allProjects, entities) ==
    LET seen(e) == \/ e.projectId = "internal"
                   \/ e.projectId \in visibleProjectIds(identity, allProjects)
    IN Filter(entities, seen)

visibleTasks(identity, allProjects, allTasks) == visibleEntities(identity, allProjects, allTasks)
visibleFiles(identity, allProjects, allFiles) == visibleEntities(identity, allProjects, allFiles)
visibleEvents(identity, allProjects, allEvents) == visibleEntities(identity, allProjects, allEvents)

\* projects.find(p => p.id === currentUser.projectId)
ClientProject(identity, allProjects) ==
    LET mine(p) == identity.projectId # Null /\ p.id = identity.projectId
    IN Find(allProjects, mine)

\* ClientPortal.rooms, for a project that was found
rooms(identity, project, channels) ==
    LET ofProject(c) == c.projectId = project.id
        allowed(c) == OptIncludes(identity.allowedChannels, c.id)
        allProjectRooms == Filter(channels, ofProject)
    IN IF identity.clientRole = GUEST /\ IsSet(identity.allowedChannels)
       THEN Filter(allProjectRooms, allowed)
       ELSE allProjectRooms

\* ClientPortal.myTasks
myTasks(project, allTasks) ==
    LET open(t) == t.projectId = project.id /\ t.status # "DONE"
    IN Filter(allTasks, open)

\* What the App renders.  The client branch hands projects.find(...)! to
\* ClientPortal, whose first hook reads project.id: with no project found
\* that read throws and the tree unmounts ("crash").
ViewOf(loading, identity, allProjects) ==
    IF loading THEN "loading"
    ELSE IF identity = NoUser THEN "auth"
    ELSE IF identity.role \in {OWNER, MANAGER} THEN "dashboard"
    ELSE IF ClientProject(identity, allProjects) = <<>> THEN "crash"
    ELSE "portal"

\* the screen the render shows (App.tsx:905-1008): an OWNER or a MANAGER that
\* has opened a project is shown the portal of that project (App.tsx:918-944)
View ==
    IF adminViewProject # <<>> /\ ViewOf(isLoadingAuth, currentUser, projects) = "dashboard"
    THEN "portal"
    ELSE ViewOf(isLoadingAuth, currentUser, projects)

\* the `project` prop of the portal (App.tsx:921, 986)
PortalProject ==
    IF currentUser.role \in {OWNER, MANAGER}
    THEN adminViewProject
    ELSE ClientProject(currentUser, projects)

\* An uncaught error while rendering unmounts the App: its state is gone, its
\* listeners are unsubscribed and no handler can be invoked any more.
Alive == View # "crash"

----------------------------------------------------------------------------
(* Provider calls in flight.                                               *)

InFlight == Cardinality(pending)
Calls == pending
Issue(calls, call) == calls \cup {call}
Settle(calls, call) == calls \ {call}

\* `started` can be issued next to `calls`: none of them is in flight already,
\* and the calls in flight stay within the bound
Room(calls, started) ==
    /\ calls \cap started = {}
    /\ Cardinality(calls \cup started) <= MaxInFlight

\* The effects keyed on [currentUser] (App.tsx:542-583), run after the render
\* that committed the identity `u`: a stats fetch for the identity's own
\* project, and loadInitialData for everyone but a CLIENT.  A render that
\* threw commits nothing and runs no effect; neither effect does anything in
\* a build that is not configured.
Effects(loading, u, allProjects) ==
    IF ~isSupabaseConfigured \/ u = NoUser \/ ViewOf(loading, u, allProjects) = "crash"
    THEN {}
    ELSE (IF u.projectId # Null
          THEN {[kind |-> "getProjectStats", by |-> u.id, projectId |-> u.projectId]}
          ELSE {})
         \cup
         (IF u.role # CLIENT
          THEN {[kind |-> "loadInitialData", by |-> u.id]}
          ELSE {})

\* the step taken last
Step(op, arg, res) ==
    [op |-> op, role |-> currentUser.role, uid |-> currentUser.id, arg |-> arg, res |-> res]
EnvStep(op) == [op |-> op, role |-> Null, uid |-> Null, arg |-> Null, res |-> Null]

----------------------------------------------------------------------------
(* Auth listener (App.tsx:493-534).                                        *)

\* SIGNED_IN with a session: the callback starts the profile query and awaits it
AuthSignedIn(uid) ==
    /\ Alive
    /\ isSupabaseConfigured
    /\ Room(pending, {[kind |-> "profile", by |-> uid]})
    /\ pending' = Issue(pending, [kind |-> "profile", by |-> uid])
    /\ last' = EnvStep("SIGNED_IN")
    /\ UNCHANGED <<currentUser, isLoadingAuth, stores, clock>>
    /\ UNCHANGED <<adminViewProject, chat, config, selfContained>>

\* the profile query settles: a row maps to mappedUser, no row (or an error,
\* which .single() also reports as data = null) to fallbackUser
ProfileDone(call, found) ==
    /\ Alive
    /\ call \in Calls /\ call.kind = "profile"
    /\ LET row == IF found THEN ProfileRow(call.by) ELSE Undefined
           u == IF IsSet(row) THEN MappedUser(call.by, row[1]) ELSE FallbackUser(call.by)
           rest == Settle(pending, call)
           started == Effects(FALSE, u, projects)
       IN /\ Room(rest, started)
          /\ currentUser' = u
          /\ pending' = rest \cup started
    /\ isLoadingAuth' = FALSE
    /\ last' = EnvStep("profile")
    /\ UNCHANGED <<stores, clock>>
    /\ UNCHANGED <<adminViewProject, chat, config, selfContained>>

\* SIGNED_OUT
AuthSignedOut ==
    /\ Alive
    /\ isSupabaseConfigured
    /\ currentUser' = NoUser
    /\ isLoadingAuth' = FALSE
    /\ last' = EnvStep("SIGNED_OUT")
    /\ UNCHANGED <<stores, pending, clock>>
    /\ adminViewProject' = <<>>
    /\ activeChannel' = "general"
    /\ UNCHANGED <<chatChannels, config, selfContained>>

\* any other event (INITIAL_SESSION, TOKEN_REFRESHED, ...): only the flag falls
AuthOtherEvent ==
    /\ Alive
    /\ isSupabaseConfigured
    /\ isLoadingAuth
    /\ isLoadingAuth' = FALSE
    /\ last' = EnvStep("INITIAL_SESSION")
    /\ UNCHANGED <<currentUser, stores, pending, clock>>
    /\ UNCHANGED <<adminViewProject, chat, config, selfContained>>

\* handleUpdateUser (App.tsx:811-814): replaces the list entry with the same
\* id and, when it is the signed-in identity, the session holder
HandleUpdateUser(updatedUser) ==
    /\ Alive /\ ~isLoadingAuth /\ currentUser # NoUser
    /\ LET same(u) == IF u.id = updatedUser.id THEN updatedUser ELSE u
           started == IF currentUser.id = updatedUser.id
                      THEN Effects(isLoadingAuth, updatedUser, projects)
                      ELSE {}
       IN /\ Room(pending, started)
          /\ users' = Map(users, same)
          /\ currentUser' = IF currentUser.id = updatedUser.id THEN updatedUser ELSE currentUser
          /\ pending' = pending \cup started
    /\ last' = Step("handleUpdateUser", updatedUser.id, Null)
    /\ UNCHANGED <<isLoadingAuth, projects, stats, tasks, clientChannels, files,
                   notifications, clock>>
    /\ UNCHANGED <<events, messages, adminViewProject, chat, config, selfContained>>

----------------------------------------------------------------------------
(* Initial fetches (App.tsx:542-583).                                      *)

\* loadInitialData resumes after Promise.all: the three stores are replaced
\* by what the provider returned ([] when a query failed)
\* the continuation with the fetched rows merged into the store: a task the
\* store holds and the fetch did not return is kept
LoadInitialDataDoneMerging(call, projectsData, tasksData, usersData) ==
    /\ Alive
    /\ call \in Calls /\ call.kind = "loadInitialData"
    /\ projects' = projectsData
    /\ LET notFetched(t) == \A f \in Range(tasksData) : f.id # t.id
       IN tasks' = Filter(tasks, notFetched) \o tasksData
    /\ users' = usersData
    /\ pending' = Settle(pending, call)
    /\ last' = [EnvStep("loadInitialData") EXCEPT !.arg = tasksData]
    /\ UNCHANGED <<currentUser, isLoadingAuth, stats, clientChannels, files,
                   notifications, clock>>
    /\ UNCHANGED <<events, messages, adminViewProject, chat, config, selfContained>>

\* the continuation with the session checked after the await: the rows are
\* dropped unless the identity that started the fetch is still signed in
LoadInitialDataDoneChecked(call, projectsData, tasksData, usersData) ==
    /\ Alive
    /\ call \in Calls /\ call.kind = "loadInitialData"
    /\ IF currentUser.id = call.by
       THEN projects' = projectsData /\ tasks' = tasksData /\ users' = usersData
       ELSE UNCHANGED <<projects, tasks, users>>
    /\ pending' = Settle(pending, call)
    /\ last' = [EnvStep("loadInitialData") EXCEPT !.arg = tasksData]
    /\ UNCHANGED <<currentUser, isLoadingAuth, stats, clientChannels, files,
                   notifications, clock>>
    /\ UNCHANGED <<events, messages, adminViewProject, chat, config, selfContained>>

LoadInitialDataDone(call, projectsData, tasksData, usersData) ==
    /\ Alive
    /\ call \in Calls /\ call.kind = "loadInitialData"
    /\ projects' = projectsData
    /\ tasks' = tasksData
    /\ users' = usersData
    /\ pending' = Settle(pending, call)
    /\ last' = [EnvStep("loadInitialData") EXCEPT !.arg = tasksData]
    /\ UNCHANGED <<currentUser, isLoadingAuth, stats, clientChannels, files,
                   notifications, clock>>
    /\ UNCHANGED <<events, messages, adminViewProject, chat, config, selfContained>>

\* getProjectStats(...).then: a row replaces the entry of its project or is
\* appended; null (not found, error) changes nothing.  The step records the
\* store as the render before it showed it.
StatsFetchDone(call, data) ==
    /\ Alive
    /\ call \in Calls /\ call.kind = "getProjectStats"
    /\ LET other(s) == s.projectId # data[1].projectId
       IN stats' = IF data = <<>> THEN stats ELSE Append(Filter(stats, other), data[1])
    /\ pending' = Settle(pending, call)
    /\ last' = [EnvStep("getProjectStats") EXCEPT !.arg = stats]
    /\ UNCHANGED <<currentUser, isLoadingAuth, users, projects, tasks, clientChannels,
                   files, notifications, clock>>
    /\ UNCHANGED <<events, messages, adminViewProject, chat, config, selfContained>>

----------------------------------------------------------------------------
(* Command handlers.                                                       *)

\* a handler is invoked from the dashboard or the portal, never from the
\* loading screen or the Auth screen
Mounted == View \in {"dashboard", "portal"}

\* onOpenProject (App.tsx:966), from a card of the clients list
\* (part_007:2147), which lists the projects the identity is shown
HandleOpenProject(project) ==
    /\ Alive /\ View = "dashboard"
    /\ project \in Range(visibleProjects(currentUser, projects))
    /\ adminViewProject' = Some(project)
    /\ last' = Step("onOpenProject", project.id, "done")
    /\ UNCHANGED <<currentUser, isLoadingAuth, stores, chat, config, selfContained, pending, clock>>

\* onBackToDashboard (App.tsx:936), offered in the portal of an opened
\* project (part_007:311-312)
HandleBackToDashboard ==
    /\ Alive /\ View = "portal" /\ currentUser.role \in {OWNER, MANAGER}
    /\ adminViewProject' = Undefined
    /\ last' = Step("onBackToDashboard", Null, "done")
    /\ UNCHANGED <<currentUser, isLoadingAuth, stores, chat, config, selfContained, pending, clock>>

\* handleLogout (App.tsx:607-622) up to await supabase.auth.signOut(); in a
\* build that is not configured the session holder is cleared at once
HandleLogout ==
    /\ Alive /\ Mounted
    /\ IF isSupabaseConfigured
       THEN /\ Room(pending, {[kind |-> "signOut", by |-> currentUser.id]})
            /\ pending' = Issue(pending, [kind |-> "signOut", by |-> currentUser.id])
            /\ last' = Step("handleLogout", Null, "called")
            /\ UNCHANGED <<currentUser, adminViewProject, activeChannel>>
       ELSE /\ currentUser' = NoUser
            /\ adminViewProject' = <<>>
            /\ activeChannel' = "general"
            /\ last' = Step("handleLogout", Null, "done")
            /\ UNCHANGED pending
    /\ UNCHANGED <<isLoadingAuth, stores, chatChannels, config, selfContained, clock>>

\* signOut() settles.  With an error handleLogout clears the session holder
\* itself; without one the provider has emitted SIGNED_OUT, which the auth
\* listener handles
SignOutDone(call, ok) ==
    /\ Alive
    /\ call \in Calls /\ call.kind = "signOut"
    /\ pending' = Settle(pending, call)
    /\ currentUser' = NoUser
    /\ adminViewProject' = <<>>
    /\ activeChannel' = "general"
    /\ isLoadingAuth' = IF ok THEN FALSE ELSE isLoadingAuth
    /\ last' = [op |-> "handleLogout", role |-> Null, uid |-> call.by, arg |-> Null,
                res |-> IF ok THEN "signed out" ELSE "failed"]
    /\ UNCHANGED <<stores, chatChannels, config, selfContained, clock>>

\* the role guard weakened to "somebody is signed in"
AnySignedIn(identity) == identity # NoUser

MayManage(identity) == identity.role = OWNER \/ identity.role = MANAGER

\* Number(value) of the strings the stats dialog can hold
Number(v) == CASE v = "10" -> 10 [] v = "20" -> 20 [] v = "30" -> 30 [] OTHER -> 0

\* the label and value fields of the three series
LabelField(type) ==
    CASE type = "revenue" -> "month" [] type = "streams" -> "date" [] OTHER -> "platform"
ValueField(type) == IF type = "followers" THEN "count" ELSE "value"

\* one series entry, e.g. { month: label, value: n }
Entry(type, label, n) ==
    [f \in {LabelField(type), ValueField(type)} |-> IF f = LabelField(type) THEN label ELSE n]
EntryLabel(type, e) == e[LabelField(type)]

\* the upsert without the lookup: the entry is appended whether or not the
\* label is there already
AppendByLabel(series, type, label, value) ==
    Append(series, Entry(type, IF label # "" THEN label ELSE "Unknown", Number(value)))

\* the upsert of App.tsx:753-770: every entry carrying the label gets the new
\* value, and with no such entry one is appended (labelled 'Unknown' when the
\* label is empty or missing)
UpsertByLabel(series, type, label, value) ==
    LET hit(e) == EntryLabel(type, e) = label
        put(e) == IF hit(e) THEN Entry(type, label, Number(value)) ELSE e
    IN IF Find(series, hit) # <<>>
       THEN Map(series, put)
       ELSE Append(series, Entry(type, IF label # "" THEN label ELSE "Unknown", Number(value)))

\* projects.find(p => p.id === projectId)?.name || 'Unknown'
ProjectName(allProjects, projectId) ==
    LET it(p) == p.id = projectId
        found == Find(allProjects, it)
    IN IF found # <<>> /\ found[1].name # "" THEN found[1].name ELSE "Unknown"

EmptyStats(projectId, projectName) ==
    [projectId |-> projectId, projectName |-> projectName,
     revenue |-> <<>>, streams |-> <<>>, followers |-> <<>>]

\* the series `type` of the project's stats, empty when it has none
SeriesOf(allStats, projectId, type) ==
    LET it(s) == s.projectId = projectId
        found == Find(allStats, it)
    IN IF found = <<>> THEN <<>> ELSE found[1][type]

\* updatedStats of handleUpdateStats (App.tsx:735-770)
UpdatedStats(allStats, allProjects, projectId, type, value, label) ==
    LET it(s) == s.projectId = projectId
        idx == FindIndex(allStats, it)
        base == IF idx = 0 THEN EmptyStats(projectId, ProjectName(allProjects, projectId))
                ELSE allStats[idx]
    IN [base EXCEPT ![type] = UpsertByLabel(base[type], type, label, value)]

\* the setStats updater of handleUpdateStats (App.tsx:773-778)
StoreStats(prev, allStats, projectId, updated) ==
    LET it(s) == s.projectId = projectId
        idx == FindIndex(allStats, it)
    IN IF idx = 0 THEN Append(prev, updated) ELSE [prev EXCEPT ![idx] = updated]

\* DetailModal.handleSave (part_007:1624-1631) submits only when the value and
\* the label typed in are both non-empty
Submitted(value, label) == value # "" /\ label # ""

\* handleUpdateStats(projectId, type, value, dateOrPlatform), reached through
\* DetailModal.handleSave, which submits only a non-empty value and label.
\* The store is written first; the provider is called afterwards and its
\* answer is not looked at.
HandleUpdateStats(projectId, type, value, label) ==
    /\ Alive /\ Mounted
    /\ Submitted(value, label)
    /\ IF MayManage(currentUser)
       THEN /\ LET updated == UpdatedStats(stats, projects, projectId, type, value, label)
                   call == [kind |-> "saveProjectStats", by |-> currentUser.id,
                            role |-> currentUser.role, projectId |-> projectId]
               IN /\ Room(pending, {call})
                  /\ stats' = StoreStats(stats, stats, projectId, updated)
                  /\ pending' = Issue(pending, call)
            /\ last' = Step("handleUpdateStats",
                            [projectId |-> projectId, type |-> type, value |-> value, label |-> label,
                             before |-> SeriesOf(stats, projectId, type)],
                            "called")
       ELSE /\ last' = Step("handleUpdateStats", Null, "denied")
            /\ UNCHANGED <<stats, pending>>
    /\ UNCHANGED <<currentUser, isLoadingAuth, users, projects, tasks, clientChannels,
                   files, notifications, clock>>
    /\ UNCHANGED <<events, messages, adminViewProject, chat, config, selfContained>>

\* handleUpdateStats invoked after getProjectStats(...).then has queued its
\* setStats and before the App has rendered again: `stats` and
\* currentProjectStatsIndex (App.tsx:734-750) are those of the render before
\* the fetch settled, while the updater of setStats (App.tsx:773-778) is
\* applied to the store the fetch has written
HandleUpdateStatsBeforeRender(projectId, type, value, label) ==
    /\ Alive /\ Mounted
    /\ Submitted(value, label)
    /\ MayManage(currentUser)
    /\ last.op = "getProjectStats" /\ last.arg # stats
    /\ Len(stats) <= MaxLen + 1
    /\ LET rendered == last.arg
           updated == UpdatedStats(rendered, projects, projectId, type, value, label)
           call == [kind |-> "saveProjectStats", by |-> currentUser.id,
                    role |-> currentUser.role, projectId |-> projectId]
       IN /\ Room(pending, {call})
          /\ stats' = StoreStats(stats, rendered, projectId, updated)
          /\ pending' = Issue(pending, call)
          /\ last' = Step("handleUpdateStats",
                          [projectId |-> projectId, type |-> type, value |-> value, label |-> label,
                           before |-> SeriesOf(rendered, projectId, type)],
                          "called")
    /\ UNCHANGED <<currentUser, isLoadingAuth, users, projects, tasks, clientChannels,
                   files, notifications, clock>>
    /\ UNCHANGED <<events, messages, adminViewProject, chat, config, selfContained>>

\* await saveProjectStats(updatedStats) returns; handleUpdateStats ends
SaveStatsDone(call, ok) ==
    /\ Alive
    /\ call \in Calls /\ call.kind = "saveProjectStats"
    /\ pending' = Settle(pending, call)
    /\ last' = [op |-> "handleUpdateStats", role |-> call.role, uid |-> call.by,
                arg |-> Null, res |-> IF ok THEN "saved" ELSE "failed"]
    /\ UNCHANGED <<currentUser, isLoadingAuth, stores, clock>>
    /\ UNCHANGED <<adminViewProject, chat, config, selfContained>>

\* handleAddTask(newTask) up to await addTaskToDB(newTask) (App.tsx:790-794)
HandleAddTask(newTask) ==
    /\ Alive /\ Mounted
    /\ IF MayManage(currentUser)
       THEN /\ Len(tasks) < MaxLen /\ Len(notifications) < MaxLen
            /\ LET call == [kind |-> "addTaskToDB", by |-> currentUser.id,
                            role |-> currentUser.role, task |-> newTask]
               IN /\ Room(pending, {call})
                  /\ pending' = Issue(pending, call)
            /\ last' = Step("handleAddTask", newTask, "called")
       ELSE /\ last' = Step("handleAddTask", Null, "denied")
            /\ UNCHANGED pending
    /\ UNCHANGED <<currentUser, isLoadingAuth, stores, clock>>
    /\ UNCHANGED <<adminViewProject, chat, config, selfContained>>

\* addNotification (App.tsx:594-601)
addNotification(prev, type, linkTo) == Append(prev, [type |-> type, linkTo |-> linkTo])

\* the continuation with the assignee test dropped: every saved task is
\* announced
AddTaskDoneAnnounced(call, ok) ==
    /\ Alive
    /\ call \in Calls /\ call.kind = "addTaskToDB"
    /\ pending' = Settle(pending, call)
    /\ IF ok
       THEN /\ tasks' = <<call.task>> \o tasks
            /\ notifications' = addNotification(notifications, "TASK", Null)
       ELSE UNCHANGED <<tasks, notifications>>
    /\ last' = [op |-> "handleAddTask", role |-> call.role, uid |-> call.by,
                arg |-> call.task, res |-> IF ok THEN "saved" ELSE "failed"]
    /\ UNCHANGED <<currentUser, isLoadingAuth, users, projects, stats, clientChannels,
                   files, clock>>
    /\ UNCHANGED <<events, messages, adminViewProject, chat, config, selfContained>>

\* handleAddTask after the await (App.tsx:796-804): the saved row is put in
\* front, and a TASK notification is added when the row is assigned to the
\* identity that made the call
AddTaskDone(call, ok) ==
    /\ Alive
    /\ call \in Calls /\ call.kind = "addTaskToDB"
    /\ pending' = Settle(pending, call)
    /\ IF ok
       THEN /\ tasks' = <<call.task>> \o tasks
            /\ notifications' = IF call.task.assigneeId = call.by
                                 THEN addNotification(notifications, "TASK", Null)
                                 ELSE notifications
       ELSE UNCHANGED <<tasks, notifications>>
    /\ last' = [op |-> "handleAddTask", role |-> call.role, uid |-> call.by,
                arg |-> call.task, res |-> IF ok THEN "saved" ELSE "failed"]
    /\ UNCHANGED <<currentUser, isLoadingAuth, users, projects, stats, clientChannels,
                   files, clock>>
    /\ UNCHANGED <<events, messages, adminViewProject, chat, config, selfContained>>

\* handleCreateProject(projectName) up to await createProject(newProject)
\* (App.tsx:825-834)
HandleCreateProject(projectName) ==
    /\ Alive /\ Mounted
    /\ IF MayManage(currentUser)
       THEN /\ InFlight < MaxInFlight
            /\ clock < MaxClock
            /\ clock' = clock + 1
            /\ pending' = Issue(pending, [kind |-> "createProject", by |-> currentUser.id,
                                          role |-> currentUser.role,
                                          project |-> [id |-> FreshId(clock + 1), name |-> projectName]])
            /\ last' = Step("handleCreateProject", FreshId(clock + 1), "called")
       ELSE /\ last' = Step("handleCreateProject", Null, "denied")
            /\ UNCHANGED <<pending, clock>>
    /\ UNCHANGED <<currentUser, isLoadingAuth, stores>>
    /\ UNCHANGED <<adminViewProject, chat, config, selfContained>>

\* the continuation with the saved project dropped: the call settles and the
\* stores stay as they were
CreateProjectDoneUnsaved(call, ok) ==
    /\ Alive
    /\ call \in Calls /\ call.kind = "createProject"
    /\ pending' = Settle(pending, call)
    /\ last' = [op |-> "handleCreateProject", role |-> call.role, uid |-> call.by,
                arg |-> call.project.id, res |-> IF ok THEN "saved" ELSE "failed"]
    /\ UNCHANGED <<currentUser, isLoadingAuth, stores, adminViewProject, chat, config, selfContained, clock>>

\* handleCreateProject after createProject settled (App.tsx:836-843): the
\* saved project and its empty stats are appended, then the stats are sent
CreateProjectDone(call, ok) ==
    /\ Alive
    /\ call \in Calls /\ call.kind = "createProject"
    /\ IF ok
       THEN /\ projects' = Append(projects, call.project)
            /\ stats' = Append(stats, EmptyStats(call.project.id, call.project.name))
            /\ pending' = Issue(Settle(pending, call), [call EXCEPT !.kind = "saveNewStats"])
       ELSE /\ pending' = Settle(pending, call)
            /\ UNCHANGED <<projects, stats>>
    /\ last' = [op |-> "handleCreateProject", role |-> call.role, uid |-> call.by,
                arg |-> call.project.id, res |-> IF ok THEN "saved" ELSE "failed"]
    /\ UNCHANGED <<currentUser, isLoadingAuth, users, tasks, clientChannels, files,
                   notifications, clock>>
    /\ UNCHANGED <<events, messages, adminViewProject, chat, config, selfContained>>

\* handleCreateProject after await saveProjectStats(newStats) (App.tsx:845-846):
\* the project's 'general' channel is appended whatever the answer was
SaveNewStatsDone(call, ok) ==
    /\ Alive
    /\ call \in Calls /\ call.kind = "saveNewStats"
    /\ clientChannels' = Append(clientChannels,
                                [id |-> "general", name |-> "General", projectId |-> call.project.id])
    /\ pending' = Settle(pending, call)
    /\ last' = [op |-> "handleCreateProject", role |-> call.role, uid |-> call.by,
                arg |-> call.project.id, res |-> IF ok THEN "stats saved" ELSE "stats failed"]
    /\ UNCHANGED <<currentUser, isLoadingAuth, users, projects, stats, tasks, files,
                   notifications, clock>>
    /\ UNCHANGED <<events, messages, adminViewProject, chat, config, selfContained>>

\* handleDeleteProject with the guard of the create handlers: OWNER or MANAGER
HandleDeleteProjectByManagers(projectId) ==
    /\ Alive /\ Mounted
    /\ LET other(p) == p.id # projectId
       IN projects' = IF ~MayManage(currentUser) THEN projects ELSE Filter(projects, other)
    /\ last' = Step("handleDeleteProject", projectId,
                    IF ~MayManage(currentUser) THEN "denied" ELSE "done")
    /\ UNCHANGED <<currentUser, isLoadingAuth, users, stats, tasks, clientChannels, files,
                   notifications, pending, clock>>
    /\ UNCHANGED <<events, messages, adminViewProject, chat, config, selfContained>>

\* handleDeleteProject(projectId) (App.tsx:850-854)
HandleDeleteProject(projectId) ==
    /\ Alive /\ Mounted
    /\ LET other(p) == p.id # projectId
       IN projects' = IF currentUser.role # OWNER THEN projects ELSE Filter(projects, other)
    /\ last' = Step("handleDeleteProject", projectId,
                    IF currentUser.role # OWNER THEN "denied" ELSE "done")
    /\ UNCHANGED <<currentUser, isLoadingAuth, users, stats, tasks, clientChannels, files,
                   notifications, pending, clock>>
    /\ UNCHANGED <<events, messages, adminViewProject, chat, config, selfContained>>

\* handleAddUser(newUser) (App.tsx:856-860)
HandleAddUser(newUser) ==
    /\ Alive /\ Mounted
    /\ IF MayManage(currentUser)
       THEN /\ clock < MaxClock
            /\ Len(users) < MaxLen
            /\ clock' = clock + 1
            /\ users' = Append(users, [newUser EXCEPT !.id = FreshId(clock + 1),
                                                      !.lastSeen = Some(Now)])
            /\ last' = Step("handleAddUser", FreshId(clock + 1), "done")
       ELSE /\ last' = Step("handleAddUser", Null, "denied")
            /\ UNCHANGED <<users, clock>>
    /\ UNCHANGED <<currentUser, isLoadingAuth, projects, stats, tasks, clientChannels,
                   files, notifications, pending>>
    /\ UNCHANGED <<events, messages, adminViewProject, chat, config, selfContained>>

\* the tasks a screen offers for completion: the portal lists myTasks of its
\* project (part_007:101, 378, 409) unless the identity is a GUEST, whose
\* overview is not rendered (part_007:348) and whose workspace button is
\* disabled (part_007:532); the dashboard lists the tasks of the store
OfferedTasks ==
    IF View = "portal"
    THEN (IF currentUser.clientRole = GUEST
          THEN <<>>
          ELSE myTasks(PortalProject[1], tasks))
    ELSE tasks

\* handleCompleteTask(taskId) (App.tsx:809)
HandleCompleteTask(taskId) ==
    /\ Alive /\ Mounted
    /\ \E t \in Range(OfferedTasks) : t.id = taskId
    /\ LET done(t) == IF t.id = taskId THEN [t EXCEPT !.status = "DONE"] ELSE t
       IN tasks' = Map(tasks, done)
    /\ last' = Step("handleCompleteTask", taskId, "done")
    /\ UNCHANGED <<currentUser, isLoadingAuth, users, projects, stats, clientChannels,
                   files, notifications, pending, clock>>
    /\ UNCHANGED <<events, messages, adminViewProject, chat, config, selfContained>>

\* handleAddEvent(event) (App.tsx:868)
HandleAddEvent(event) ==
    /\ Alive /\ Mounted
    /\ IF MayManage(currentUser)
       THEN /\ Len(events) < MaxLen
            /\ events' = Append(events, event)
            /\ last' = Step("handleAddEvent", event.id, "done")
       ELSE /\ last' = Step("handleAddEvent", Null, "denied")
            /\ UNCHANGED events
    /\ UNCHANGED <<currentUser, isLoadingAuth, users, projects, stats, tasks, messages,
                   clientChannels, files, notifications, adminViewProject, chat, config, selfContained, pending,
                   clock>>

\* handleDeleteEvent(eventId) (App.tsx:869)
HandleDeleteEvent(eventId) ==
    /\ Alive /\ Mounted
    /\ LET other(e) == e.id # eventId
       IN events' = IF MayManage(currentUser) THEN Filter(events, other) ELSE events
    /\ last' = Step("handleDeleteEvent", eventId,
                    IF MayManage(currentUser) THEN "done" ELSE "denied")
    /\ UNCHANGED <<currentUser, isLoadingAuth, users, projects, stats, tasks, messages,
                   clientChannels, files, notifications, adminViewProject, chat, config, selfContained, pending,
                   clock>>

\* handleUploadFile(file, projectId) (App.tsx:871-877)
HandleUploadFile(projectId) ==
    /\ Alive /\ Mounted
    /\ clock < MaxClock
    /\ Len(files) < MaxLen
    /\ clock' = clock + 1
    /\ files' = <<[id |-> FreshId(clock + 1), uploadedBy |-> currentUser.id,
                   projectId |-> projectId]>> \o files
    /\ last' = Step("handleUploadFile", FreshId(clock + 1), "done")
    /\ UNCHANGED <<currentUser, isLoadingAuth, users, projects, stats, tasks,
                   clientChannels, notifications, pending>>
    /\ UNCHANGED <<events, messages, adminViewProject, chat, config, selfContained>>

\* the condition without the uploader test: any signed-in role may delete
MayDeleteAnyFile(identity, file) == identity.role \in {OWNER, MANAGER, CLIENT}

\* the condition under which handleDeleteFile removes a file (App.tsx:882)
MayDeleteFile(identity, file) ==
    \/ identity.role = OWNER
    \/ identity.role = MANAGER
    \/ (identity.role = CLIENT /\ file.uploadedBy = identity.id)

\* handleDeleteFile(fileId) (App.tsx:878-885); the portal reaches it from its
\* files view, which a GUEST is not shown (part_007:452-454)
HandleDeleteFile(fileId) ==
    /\ Alive /\ Mounted
    /\ View = "portal" => currentUser.clientRole # GUEST
    /\ LET it(f) == f.id = fileId
           other(f) == f.id # fileId
           file == Find(files, it)
       IN /\ files' = IF file # <<>> /\ MayDeleteFile(currentUser, file[1])
                      THEN Filter(files, other) ELSE files
          /\ last' = Step("handleDeleteFile", fileId,
                          IF file = <<>> THEN "unknown"
                          ELSE IF MayDeleteFile(currentUser, file[1]) THEN "done" ELSE "denied")
    /\ UNCHANGED <<currentUser, isLoadingAuth, users, projects, stats, tasks,
                   clientChannels, notifications, pending, clock>>
    /\ UNCHANGED <<events, messages, adminViewProject, chat, config, selfContained>>

\* handleCreateClientChannel(name, pid) (App.tsx:901); the id is the name in
\* lower case with blanks turned into dashes
ChannelId(name) ==
    CASE name = "General" -> "general"
      [] name = "Press Kit" -> "press-kit"
      [] name = "press-kit" -> "press-kit"
      [] OTHER -> name

\* ClientPortal.canManageChannels (part_007:105)
canManageChannels(identity) ==
    \/ identity.role \in {OWNER, MANAGER}
    \/ (identity.role = CLIENT /\ identity.clientRole = TEAMLEADER)

\* ClientPortal.canDeleteChannels (part_007:106)
canDeleteChannels(identity) == identity.role \in {OWNER, MANAGER}

\* reached from the portal's add-channel form (part_007:170-177, 216-217),
\* which passes the id of the portal's project
HandleCreateClientChannel(name, pid) ==
    /\ Alive /\ View = "portal"
    /\ canManageChannels(currentUser)
    /\ pid = PortalProject[1].id
    /\ Len(clientChannels) < MaxChannels
    /\ clientChannels' = Append(clientChannels, [id |-> ChannelId(name), name |-> name, projectId |-> pid])
    /\ last' = Step("handleCreateClientChannel", ChannelId(name), "done")
    /\ UNCHANGED <<currentUser, isLoadingAuth, users, projects, stats, tasks, files,
                   notifications, pending, clock>>
    /\ UNCHANGED <<events, messages, adminViewProject, chat, config, selfContained>>

\* the ledger emptied, as handleMarkAllAsRead does, whatever the channel
ClearAll(prev, linkTo) == <<>>

\* handleClearChannelNotifications(linkTo) (App.tsx:603-605)
ClearChannel(prev, linkTo) ==
    LET other(n) == n.linkTo # linkTo
    IN Filter(prev, other)

HandleClearChannelNotifications(linkTo) ==
    /\ Alive /\ Mounted
    /\ notifications' = ClearChannel(notifications, linkTo)
    /\ last' = Step("handleClearChannelNotifications", linkTo,
                    IF \E n \in Range(notifications) : n.linkTo = linkTo THEN "cleared" ELSE "none")
    /\ UNCHANGED <<currentUser, isLoadingAuth, users, projects, stats, tasks,
                   clientChannels, files, pending, clock>>
    /\ UNCHANGED <<events, messages, adminViewProject, chat, config, selfContained>>

\* addNotification(type, title, message, linkTo) with any of its arguments
\* (App.tsx:594-601); handleAddTask is its one caller and passes no linkTo
AddNotification(type, linkTo) ==
    /\ Alive /\ Mounted
    /\ Len(notifications) < MaxNotifications
    /\ notifications' = addNotification(notifications, type, linkTo)
    /\ last' = Step("addNotification", linkTo, "done")
    /\ UNCHANGED <<currentUser, isLoadingAuth, users, projects, stats, tasks,
                   clientChannels, files, pending, clock>>
    /\ UNCHANGED <<events, messages, adminViewProject, chat, config, selfContained>>

----------------------------------------------------------------------------
(* Global search (App.tsx:664-729).                                        *)

\* the characters of the strings that are stored and typed in
Chars(str) ==
    CASE str = "" -> <<>>
      [] str = " " -> <<" ">>
      [] str = " \t" -> <<" ", "\t">>
      [] str = "zz" -> <<"z", "z">>
      [] str = "alpha" -> <<"a", "l", "p", "h", "a">>
      [] str = "ALPHA" -> <<"A", "L", "P", "H", "A">>
      [] str = "alpha " -> <<"a", "l", "p", "h", "a", " ">>
      [] str = "Alpha" -> <<"A", "l", "p", "h", "a">>
      [] str = "Beta" -> <<"B", "e", "t", "a">>
      [] str = "Alpha mix" -> <<"A", "l", "p", "h", "a", " ", "m", "i", "x">>
      [] str = "alpha.wav" -> <<"a", "l", "p", "h", "a", ".", "w", "a", "v">>
      [] str = "alpha?" -> <<"a", "l", "p", "h", "a", "?">>
      [] str = "Alpha gig" -> <<"A", "l", "p", "h", "a", " ", "g", "i", "g">>

\* String.prototype.toLowerCase, character by character
Lower(c) ==
    CASE c = "A" -> "a" [] c = "B" -> "b" [] c = "H" -> "h" [] c = "L" -> "l"
      [] c = "P" -> "p" [] OTHER -> c
toLowerCase(text) == [i \in DOMAIN text |-> Lower(text[i])]

\* String.prototype.trim: white space is stripped from both ends
Whitespace == {" ", "\t"}
RECURSIVE trimStart(_)
trimStart(text) ==
    IF text # <<>> /\ Head(text) \in Whitespace THEN trimStart(Tail(text)) ELSE text
RECURSIVE trimEnd(_)
trimEnd(text) ==
    IF text # <<>> /\ text[Len(text)] \in Whitespace
    THEN trimEnd(SubSeq(text, 1, Len(text) - 1))
    ELSE text
trim(text) == trimEnd(trimStart(text))

\* String.prototype.includes: q occurs in text as a run of characters
includes(text, q) ==
    \E i \in 0..(Len(text) - Len(q)) : SubSeq(text, i + 1, i + Len(q)) = q

\* results.slice(start, end) with the whole array kept
sliceAll(s, start, end) == s

\* Array.prototype.slice(start, end) for 0 <= start <= end
slice(s, start, end) == SubSeq(s, start + 1, IF end < Len(s) THEN end ELSE Len(s))

\* one entry of the result list; `data` is the entity found
SearchResult(type, entity, linkTo) ==
    [id |-> entity.id, type |-> type, linkTo |-> linkTo, data |-> entity]

\* handleGlobalSearch(query) for the identity and the stores of its closure
handleGlobalSearch(identity, query, allProjects, allTasks, allFiles, allMessages, allEvents) ==
    IF trim(Chars(query)) = <<>> \/ identity = NoUser THEN <<>>
    ELSE
    LET q == toLowerCase(Chars(query))
        isOwner == identity.role = OWNER
        isManager == identity.role = MANAGER
        isClient == identity.role = CLIENT
        isGuest == identity.clientRole = GUEST
        ofClient(e) == identity.projectId # Null /\ e.projectId = identity.projectId
        inScope(m) == \/ m.projectId = "internal"
                      \/ m.projectId \in visibleProjectIds(identity, allProjects)
        allowedRoom(m) == OptIncludes(identity.allowedChannels, m.room)
        named(e) == includes(toLowerCase(Chars(e.name)), q)
        titled(e) == includes(toLowerCase(Chars(e.title)), q)
        saying(m) == includes(toLowerCase(Chars(m.content)), q)
        asProject(p) == SearchResult("PROJECT", p, p.id)
        asTask(t) == SearchResult("TASK", t, t.projectId)
        asFile(f) == SearchResult("FILE", f, Null)
        asMessage(m) == SearchResult("MESSAGE", m, m.room)
        asEvent(e) == SearchResult("EVENT", e, Null)
        tasksToSearch == IF isClient THEN Filter(allTasks, ofClient)
                         ELSE visibleTasks(identity, allProjects, allTasks)
        filesToSearch == IF isClient THEN Filter(allFiles, ofClient)
                         ELSE visibleFiles(identity, allProjects, allFiles)
        msgsOfClient == Filter(allMessages, ofClient)
        msgsToSearch == IF isClient
                        THEN IF isGuest /\ IsSet(identity.allowedChannels)
                             THEN Filter(msgsOfClient, allowedRoom)
                             ELSE msgsOfClient
                        ELSE Filter(allMessages, inScope)
        eventsToSearch == IF isClient THEN Filter(allEvents, ofClient)
                          ELSE visibleEvents(identity, allProjects, allEvents)
        results ==
            (IF isOwner \/ isManager
             THEN Map(Filter(visibleProjects(identity, allProjects), named), asProject)
             ELSE <<>>)
            \o Map(Filter(tasksToSearch, titled), asTask)
            \o Map(Filter(filesToSearch, named), asFile)
            \o Map(Filter(msgsToSearch, saying), asMessage)
            \o Map(Filter(eventsToSearch, titled), asEvent)
    IN slice(results, 0, 10)

\* the search box of the dashboard or the portal calls onSearch(query); what
\* comes back is kept by the box
HandleGlobalSearch(query) ==
    /\ Alive /\ Mounted
    /\ last' = Step("handleGlobalSearch",
                    [query |-> query,
                     results |-> handleGlobalSearch(currentUser, query, projects, tasks, files,
                                                    messages, events)],
                    "done")
    /\ UNCHANGED <<currentUser, isLoadingAuth, stores, adminViewProject, chat, config, selfContained, pending, clock>>

----------------------------------------------------------------------------
(* Messages, the internal chat and the catch-up view.                      *)

\* time passes
Tick ==
    /\ Alive
    /\ clock < MaxClock
    /\ clock' = clock + 1
    /\ last' = EnvStep("tick")
    /\ UNCHANGED <<currentUser, isLoadingAuth, stores, adminViewProject, chat, config, selfContained, pending>>

\* the unread test with a message sent at the last-seen instant counted as unread
unreadMessagesInclusive(identity, allMessages) ==
    LET lastSeenDate == IF IsSet(identity.lastSeen) THEN identity.lastSeen[1] ELSE 0
        unread(m) == m.userId # identity.id /\ m.timestamp >= lastSeenDate
    IN Filter(allMessages, unread)

\* Array.prototype.sort((a, b) => b.timestamp - a.timestamp): newest first,
\* messages of one instant in the order they had
RECURSIVE sortNewestFirst(_)
sortNewestFirst(s) ==
    IF s = <<>> THEN <<>>
    ELSE LET newest == CHOOSE i \in DOMAIN s :
                           /\ \A j \in DOMAIN s : s[j].timestamp <= s[i].timestamp
                           /\ \A j \in 1..(i - 1) : s[j].timestamp < s[i].timestamp
         IN <<s[newest]>> \o sortNewestFirst(SubSeq(s, 1, newest - 1) \o SubSeq(s, newest + 1, Len(s)))

\* InternalDashboard.unreadMessages (part_007:1002-1003)
unreadMessages(identity, allMessages) ==
    LET lastSeenDate == IF IsSet(identity.lastSeen) THEN identity.lastSeen[1] ELSE 0
        unread(m) == m.userId # identity.id /\ m.timestamp > lastSeenDate
    IN sortNewestFirst(Filter(allMessages, unread))

\* newMsg without the role test: every message goes to the opened project or
\* to the internal chat
newMsgUntagged(identity, adminView, text, room, now) ==
    [id |-> now, userId |-> identity.id, content |-> text, timestamp |-> now, room |-> room,
     projectId |-> IF adminView # <<>> THEN adminView[1].id ELSE "internal"]

\* newMsg of handleSendMessage (App.tsx:889-890) for the identity and the
\* admin view of its closure
newMsg(identity, adminView, text, room, now) ==
    [id |-> now, userId |-> identity.id, content |-> text, timestamp |-> now, room |-> room,
     projectId |-> IF identity.role = CLIENT
                   THEN (IF identity.projectId # Null THEN identity.projectId ELSE "p1")
                   ELSE (IF adminView # <<>> THEN adminView[1].id ELSE "internal")]

\* InternalChat.handleSend up to its await (part_007:1993-1997): the text and
\* the open channel are captured, and a timer of 500 ms is started
HandleSend(text) ==
    /\ Alive /\ View = "dashboard"
    /\ trim(Chars(text)) # <<>>
    /\ Len(messages) + Cardinality({c \in pending : c.kind = "sendDelay"}) < MaxMessages
    /\ LET call == [kind |-> "sendDelay", by |-> currentUser.id, sender |-> currentUser,
                    adminView |-> adminViewProject, text |-> text, room |-> activeChannel]
       IN /\ Room(pending, {call})
          /\ pending' = Issue(pending, call)
    /\ last' = Step("handleSend", activeChannel, "called")
    /\ UNCHANGED <<currentUser, isLoadingAuth, stores, adminViewProject, chat, config, selfContained, clock>>

\* the timer fires: onSendMessage(newMessage, activeChannel) runs
\* handleSendMessage (App.tsx:887-892) with what the closure captured
SendDelayDone(call) ==
    /\ Alive
    /\ call \in Calls /\ call.kind = "sendDelay"
    /\ messages' = Append(messages, newMsg(call.sender, call.adminView, call.text, call.room, Now))
    /\ pending' = Settle(pending, call)
    /\ last' = [op |-> "handleSendMessage", role |-> call.sender.role, uid |-> call.by,
                arg |-> newMsg(call.sender, call.adminView, call.text, call.room, Now),
                res |-> "done"]
    /\ UNCHANGED <<currentUser, isLoadingAuth, users, projects, stats, tasks, events,
                   clientChannels, files, notifications, adminViewProject, chat, config, selfContained, clock>>

\* a channel of the internal chat is clicked (part_007:2024): it becomes the
\* open channel and its notifications are cleared
HandleChannelClick(channelId) ==
    /\ Alive /\ View = "dashboard"
    /\ \E c \in Range(chatChannels) : c.id = channelId
    /\ activeChannel' = channelId
    /\ notifications' = ClearChannel(notifications, channelId)
    /\ last' = Step("handleChannelClick", channelId, "done")
    /\ UNCHANGED <<currentUser, isLoadingAuth, users, projects, stats, tasks, events, messages,
                   clientChannels, files, chatChannels, adminViewProject, config, selfContained, pending,
                   clock>>

\* handleCreateChannel(c) (App.tsx:900)
HandleCreateChannel(c) ==
    /\ Alive /\ Mounted
    /\ IF MayManage(currentUser)
       THEN /\ Len(chatChannels) < MaxChannels
            /\ chatChannels' = Append(chatChannels, c)
            /\ last' = Step("handleCreateChannel", c.id, "done")
       ELSE /\ last' = Step("handleCreateChannel", Null, "denied")
            /\ UNCHANGED chatChannels
    /\ UNCHANGED <<currentUser, isLoadingAuth, stores, adminViewProject, activeChannel, config, selfContained,
                   pending, clock>>

\* handleMarkAllAsRead (App.tsx:862-866), reached through the catch-up view's
\* button, which is there while a message is unread (part_007:1352): the
\* ledger is emptied and handleUpdateUser is handed the identity with lastSeen
\* set to now
HandleMarkAllAsRead ==
    /\ Alive /\ View = "dashboard"
    /\ unreadMessages(currentUser, messages) # <<>>
    /\ notifications' = <<>>
    /\ LET updatedUser == [currentUser EXCEPT !.lastSeen = Some(Now)]
           same(u) == IF u.id = updatedUser.id THEN updatedUser ELSE u
           started == Effects(isLoadingAuth, updatedUser, projects)
       IN /\ Room(pending, started)
          /\ users' = Map(users, same)
          /\ currentUser' = updatedUser
          /\ pending' = pending \cup started
    /\ last' = Step("handleMarkAllAsRead", Now, "done")
    /\ UNCHANGED <<isLoadingAuth, projects, stats, tasks, events, messages, clientChannels,
                   files, adminViewProject, chat, config, selfContained, clock>>

\* handleUpdateClientChannel(cid, name) (App.tsx:902), reached from the pencil
\* of a room of the portal (part_007:184-190, 251-256): not offered for
\* 'general', and the name is trimmed and must not be empty
HandleUpdateClientChannel(cid, name) ==
    /\ Alive /\ View = "portal"
    /\ canManageChannels(currentUser)
    /\ cid # "general"
    /\ \E r \in Range(rooms(currentUser, PortalProject[1], clientChannels)) : r.id = cid
    /\ trim(Chars(name)) # <<>>
    /\ LET renamed(c) == IF c.id = cid THEN [c EXCEPT !.name = name] ELSE c
       IN clientChannels' = Map(clientChannels, renamed)
    /\ last' = Step("handleUpdateClientChannel",
                    [cid |-> cid, projectId |-> PortalProject[1].id], "done")
    /\ UNCHANGED <<currentUser, isLoadingAuth, users, projects, stats, tasks, files,
                   notifications, pending, clock>>
    /\ UNCHANGED <<events, messages, adminViewProject, chat, config, selfContained>>

\* handleDeleteClientChannel(cid) (App.tsx:903), reached from the cross of a
\* room of the portal (part_007:257-261): not offered for 'general'
HandleDeleteClientChannel(cid) ==
    /\ Alive /\ View = "portal"
    /\ canManageChannels(currentUser) /\ canDeleteChannels(currentUser)
    /\ cid # "general"
    /\ \E r \in Range(rooms(currentUser, PortalProject[1], clientChannels)) : r.id = cid
    /\ LET other(c) == c.id # cid
       IN clientChannels' = Filter(clientChannels, other)
    /\ last' = Step("handleDeleteClientChannel",
                    [cid |-> cid, projectId |-> PortalProject[1].id], "done")
    /\ UNCHANGED <<currentUser, isLoadingAuth, users, projects, stats, tasks, files,
                   notifications, pending, clock>>
    /\ UNCHANGED <<events, messages, adminViewProject, chat, config, selfContained>>

\* ClientPortal.handleSend up to its await (part_007:143-147), from the form
\* of the workspace view, shown while the portal has a room: the text and the
\* open room are captured and a timer of 600 ms is started; SendDelayDone is
\* what runs when it fires (part_007:148)
PortalHandleSend(text, room) ==
    /\ Alive /\ View = "portal"
    /\ \E r \in Range(rooms(currentUser, PortalProject[1], clientChannels)) :
           r.id = room
    /\ trim(Chars(text)) # <<>>
    /\ Len(messages) + Cardinality({c \in pending : c.kind = "sendDelay"}) < MaxMessages
    /\ LET call == [kind |-> "sendDelay", by |-> currentUser.id, sender |-> currentUser,
                    adminView |-> adminViewProject, text |-> text, room |-> room]
       IN /\ Room(pending, {call})
          /\ pending' = Issue(pending, call)
    /\ last' = Step("handleSend", room, "called")
    /\ UNCHANGED <<currentUser, isLoadingAuth, stores, adminViewProject, chat, config,
                   selfContained, clock>>

\* ClientPortal.handleFileSelect up to its await (part_007:156-160), reached
\* from the paperclip of the workspace view, which every client role is shown
\* while it has a room (part_007:470, 513-514): a timer of 1000 ms is started
HandleFileSelect(room) ==
    /\ Alive /\ View = "portal"
    /\ \E r \in Range(rooms(currentUser, PortalProject[1], clientChannels)) :
           r.id = room
    /\ LET call == [kind |-> "uploadDelay", by |-> currentUser.id, sender |-> currentUser,
                    adminView |-> adminViewProject, project |-> PortalProject[1],
                    text |-> "Delade en fil", room |-> room]
       IN /\ Room(pending, {call})
          /\ pending' = Issue(pending, call)
    /\ last' = Step("handleFileSelect", room, "called")
    /\ UNCHANGED <<currentUser, isLoadingAuth, stores, adminViewProject, chat, config, selfContained, clock>>

\* the timer fires (part_007:161-164): onUploadFile(file) runs handleUploadFile
\* (App.tsx:871-877) with the project the closure captured (App.tsx:934, 998),
\* and the file it returns is announced with onSendMessage
UploadDelayDone(call) ==
    /\ Alive
    /\ call \in Calls /\ call.kind = "uploadDelay"
    /\ clock < MaxClock
    /\ Len(files) < MaxLen
    /\ Len(messages) < MaxMessages
    /\ clock' = clock + 1
    /\ files' = <<[id |-> FreshId(clock + 1), uploadedBy |-> call.sender.id,
                   projectId |-> call.project.id]>> \o files
    /\ messages' = Append(messages, newMsg(call.sender, call.adminView, call.text, call.room, Now))
    /\ pending' = Settle(pending, call)
    /\ last' = [op |-> "handleUploadFile", role |-> call.sender.role, uid |-> call.by,
                arg |-> FreshId(clock + 1), res |-> "done"]
    /\ UNCHANGED <<currentUser, isLoadingAuth, users, projects, stats, tasks, events,
                   clientChannels, notifications, adminViewProject, chat, config, selfContained>>

----------------------------------------------------------------------------
(* The App variant that reports through toasts (App.tsx:1-465).             *)

\* handleUpdateStats(updatedStats) up to await saveProjectStats(updatedStats)
\* (App.tsx:268-269), from the dashboard this variant shows a signed-in user
ToastHandleUpdateStats(updatedStats) ==
    /\ currentUser # NoUser /\ ~isLoadingAuth
    /\ LET call == [kind |-> "saveUpdatedStats", by |-> currentUser.id,
                    role |-> currentUser.role, stats |-> updatedStats]
       IN /\ Room(pending, {call})
          /\ pending' = Issue(pending, call)
    /\ last' = Step("handleUpdateStats", updatedStats, "called")
    /\ UNCHANGED <<currentUser, isLoadingAuth, stores, adminViewProject, chat, config, selfContained, clock>>

\* the continuation (App.tsx:270-275): on success every entry of the saved
\* project is replaced by the saved one; on failure the store is left alone
ToastSaveStatsDone(call, ok) ==
    /\ call \in Calls /\ call.kind = "saveUpdatedStats"
    /\ LET put(s) == IF s.projectId = call.stats.projectId THEN call.stats ELSE s
       IN stats' = IF ok THEN Map(stats, put) ELSE stats
    /\ pending' = Settle(pending, call)
    /\ last' = [op |-> "handleUpdateStats", role |-> call.role, uid |-> call.by,
                arg |-> call.stats, res |-> IF ok THEN "saved" ELSE "failed"]
    /\ UNCHANGED <<currentUser, isLoadingAuth, users, projects, tasks, events, messages,
                   clientChannels, files, notifications, adminViewProject, chat, config, selfContained, clock>>

----------------------------------------------------------------------------
(* Start-up and the services of a build that may lack its configuration.   *)

\* the first effect of the App (App.tsx:487-493): without the configuration
\* the loading flag falls and nothing else happens; with it the auth listener
\* is registered at the provider client
MountEffect ==
    /\ last.op = "init"
    /\ IF ~isSupabaseConfigured
       THEN /\ isLoadingAuth' = FALSE
            /\ last' = [EnvStep("mount") EXCEPT !.res = "not configured"]
       ELSE /\ last' = [EnvStep("mount") EXCEPT !.res = "listening"]
            /\ UNCHANGED isLoadingAuth
    /\ UNCHANGED <<currentUser, stores, adminViewProject, chat, config, selfContained, pending, clock>>

\* Auth.handleSubmit (components/Auth.tsx:18-49): without the configuration an
\* error text is shown; with it signInWithPassword is called and awaited
AuthHandleSubmit ==
    /\ Alive /\ View = "auth"
    /\ IF ~isSupabaseConfigured
       THEN /\ last' = [EnvStep("Auth.handleSubmit") EXCEPT !.res = "not configured"]
            /\ UNCHANGED pending
       ELSE /\ Room(pending, {[kind |-> "signInWithPassword", by |-> Null]})
            /\ pending' = Issue(pending, [kind |-> "signInWithPassword", by |-> Null])
            /\ last' = [EnvStep("Auth.handleSubmit") EXCEPT !.res = "called"]
    /\ UNCHANGED <<currentUser, isLoadingAuth, stores, adminViewProject, chat, config, selfContained, clock>>

\* signInWithPassword settles; the session holder is left to the auth listener
SignInDone(call) ==
    /\ Alive
    /\ call \in Calls /\ call.kind = "signInWithPassword"
    /\ pending' = Settle(pending, call)
    /\ last' = [EnvStep("Auth.handleSubmit") EXCEPT !.res = "done"]
    /\ UNCHANGED <<currentUser, isLoadingAuth, stores, adminViewProject, chat, config, selfContained, clock>>

\* the exported functions of services/databaseService.ts
ServiceFunctions ==
    {"getProjectStats", "saveProjectStats", "fetchUserProfile", "fetchAllUsers",
     "updateUserInDB", "deleteUserFromDB", "fetchAllProjects", "createProject",
     "fetchAllTasks", "addTaskToDB", "updateTaskInDB", "handleUploadFile", "handleDeleteFile"}

\* what a function returns before it touches the provider client
EmptyValue(fn) ==
    CASE fn \in {"getProjectStats", "fetchUserProfile", "createProject", "addTaskToDB",
                 "handleUploadFile"} -> "null"
      [] fn \in {"fetchAllUsers", "fetchAllProjects", "fetchAllTasks"} -> "[]"
      [] fn \in {"saveProjectStats", "updateUserInDB", "deleteUserFromDB", "updateTaskInDB",
                 "handleDeleteFile"} -> "false"

\* what a function can return once the provider has answered
Answers(fn) ==
    {EmptyValue(fn),
     CASE EmptyValue(fn) = "null" -> "row" [] EmptyValue(fn) = "[]" -> "rows" [] OTHER -> "true"}

\* a function of databaseService.ts is called: `if (!isSupabaseConfigured)
\* return <empty>` comes first, the query at the provider client after it
CallService(fn) ==
    /\ IF ~isSupabaseConfigured
       THEN /\ last' = [EnvStep(fn) EXCEPT !.res = EmptyValue(fn)]
            /\ UNCHANGED pending
       ELSE /\ Room(pending, {[kind |-> "service", by |-> Null, fn |-> fn]})
            /\ pending' = Issue(pending, [kind |-> "service", by |-> Null, fn |-> fn])
            /\ last' = [EnvStep(fn) EXCEPT !.res = "called"]
    /\ UNCHANGED <<currentUser, isLoadingAuth, stores, adminViewProject, chat, config, selfContained, clock>>

\* the query of a databaseService function settles and the function returns
ServiceDone(call, answer) ==
    /\ call \in Calls /\ call.kind = "service"
    /\ answer \in Answers(call.fn)
    /\ pending' = Settle(pending, call)
    /\ last' = [EnvStep(call.fn) EXCEPT !.res = answer]
    /\ UNCHANGED <<currentUser, isLoadingAuth, stores, adminViewProject, chat, config, selfContained, clock>>

----------------------------------------------------------------------------
(* Initial state and specifications.                                       *)

\* the state after App's first render (App.tsx:468-484, 435-444)
Init ==
    /\ currentUser = NoUser
    /\ isLoadingAuth = TRUE
    /\ isLoading = TRUE /\ isAuthenticated = FALSE /\ isDataLoaded = FALSE /\ toast = <<>>
    /\ users = <<>> /\ projects = <<>> /\ stats = <<>> /\ tasks = <<>>
    /\ events = <<>> /\ messages = <<>>
    /\ clientChannels = <<>> /\ files = <<>> /\ notifications = <<>>
    /\ adminViewProject = <<>>
    /\ chatChannels = INITIAL_CHANNELS /\ activeChannel = "general"
    /\ supabaseUrl = "https://footstep.supabase.co" /\ supabaseAnonKey = "anon-key"
    /\ pending = {}
    /\ clock = 0
    /\ last = EnvStep("init")

\* rows the provider holds besides DbProjects
DbTasks == << [id |-> "t1", projectId |-> "p1", assigneeId |-> "u1", status |-> "TODO"],
             [id |-> "t2", projectId |-> "p1", assigneeId |-> "u3", status |-> "TODO"] >>
DbStats == [EmptyStats("p1", "Alpha") EXCEPT !.revenue = <<Entry("revenue", "Jan", 10)>>]

\* The provider client resolves a query with { data, error }: "ok" stands for
\* rows and no error, "PGRST116" for the error of a single-row query that
\* found none, "error" for any other error.

\* fetchAllUsers, fetchAllProjects, fetchAllTasks: `if (error) return []`
fetchAll(outcome, rows) == IF outcome = "ok" THEN rows ELSE <<>>

\* getProjectStats: null for PGRST116; another error is thrown into the
\* function's own catch, which returns null
getProjectStats(outcome, row) ==
    CASE outcome = "ok" -> <<row>>
      [] outcome = "PGRST116" -> <<>>
      [] OTHER -> <<>>

\* saveProjectStats: an error is thrown into the function's own catch, which
\* returns false
saveProjectStats(outcome) == outcome = "ok"

\* the auth listener for the accounts U (App.tsx:487-539)
Auth(U) ==
    \/ \E uid \in U : AuthSignedIn(uid)
    \/ \E call \in Calls, found \in BOOLEAN : ProfileDone(call, found)
    \/ AuthSignedOut
    \/ AuthOtherEvent

\* loadInitialData settling with one of the answers PD x TD x UD (App.tsx:561-583)
Loads(PD, TD, UD) ==
    \E call \in Calls, pd \in PD, td \in TD, ud \in UD : LoadInitialDataDone(call, pd, td, ud)

\* getProjectStats settling with one of the answers SD (App.tsx:542-558)
StatsFetches(SD) ==
    \E call \in Calls, sd \in SD : StatsFetchDone(call, sd)

NewTask == [id |-> "t2", projectId |-> "p1", assigneeId |-> "u1", status |-> "TODO"]
NewUser == [id |-> Null, role |-> CLIENT, clientRole |-> USER, projectId |-> "p1",
            assignedProjects |-> Undefined, allowedChannels |-> Undefined, lastSeen |-> Undefined]

\* an OWNER session using the three handlers that write through the provider
NextProvider ==
    \/ Auth({"u1"})
    \/ Loads({DbProjects}, {<<>>}, {<<>>})
    \/ \E value \in {"10", ""}, label \in {"Jan", ""} :
           HandleUpdateStats("p1", "revenue", value, label)
    \/ \E call \in Calls, ok \in BOOLEAN : SaveStatsDone(call, ok)
    \/ HandleAddTask(NewTask)
    \/ \E call \in Calls, ok \in BOOLEAN : AddTaskDone(call, ok)
    \/ HandleCreateProject("Gamma")
    \/ \E call \in Calls, ok \in BOOLEAN : CreateProjectDone(call, ok)
    \/ \E call \in Calls, ok \in BOOLEAN : SaveNewStatsDone(call, ok)

SpecProvider == Init /\ [][NextProvider]_vars

\* what handleUpdateUser is handed: a copy of the identity with another
\* assignedProjects and allowedChannels
Edited(identity, ap, ac) == [identity EXCEPT !.assignedProjects = ap, !.allowedChannels = ac]

\* sessions of a MANAGER and of a GUEST over the projects and the client
\* channels, with the profile edited and channels created on the way
NextVisibility ==
    \/ Auth({"u2", "u4"})
    \/ Loads({<<>>, DbProjects, Tail(DbProjects)}, {<<>>}, {<<>>})
    \/ StatsFetches({<<>>})
    \/ \E ap \in {Undefined, Some({}), Some({"p1"})}, ac \in {Undefined, Some({}), Some({"general"})} :
           HandleUpdateUser(Edited(currentUser, ap, ac))
    \/ \E project \in Range(DbProjects) : HandleOpenProject(project)
    \/ HandleBackToDashboard
    \/ \E name \in {"General", "Press Kit"}, pid \in {"p1", "p2"} :
           HandleCreateClientChannel(name, pid)

SpecVisibility == Init /\ [][NextVisibility]_vars

\* sessions of an OWNER, a MANAGER and a CLIENT creating and deleting projects
NextProjects ==
    \/ Auth({"u1", "u2", "u3"})
    \/ Loads({<<>>, DbProjects}, {<<>>}, {<<>>})
    \/ StatsFetches({<<>>})
    \/ HandleCreateProject("Gamma")
    \/ \E call \in Calls, ok \in BOOLEAN : CreateProjectDone(call, ok)
    \/ \E call \in Calls, ok \in BOOLEAN : SaveNewStatsDone(call, ok)
    \/ \E pid \in {"p1", "n1"} : HandleDeleteProject(pid)

SpecProjects == Init /\ [][NextProjects]_vars

\* sessions of an OWNER and a CLIENT calling the four create handlers
NextCreate ==
    \/ Auth({"u1", "u3"})
    \/ Loads({DbProjects}, {<<>>}, {<<>>})
    \/ StatsFetches({<<>>})
    \/ HandleUpdateStats("p1", "revenue", "10", "Jan")
    \/ \E call \in Calls : SaveStatsDone(call, TRUE)
    \/ HandleAddTask(NewTask)
    \/ \E call \in Calls : AddTaskDone(call, TRUE)
    \/ HandleCreateProject("Gamma")
    \/ \E call \in Calls : CreateProjectDone(call, TRUE)
    \/ \E call \in Calls : SaveNewStatsDone(call, TRUE)
    \/ HandleAddUser(NewUser)

SpecCreate == Init /\ [][NextCreate]_vars

\* sessions of an OWNER, a MANAGER and a CLIENT of p1 over the tasks and the files
NextPortal ==
    \/ Auth({"u1", "u2", "u3"})
    \/ Loads({DbProjects}, {<<>>, DbTasks}, {<<>>})
    \/ StatsFetches({<<>>})
    \/ \E taskId \in {"t1", "t2"} : HandleCompleteTask(taskId)
    \/ HandleUploadFile("p1")
    \/ \E fileId \in {"n1", "n2", "f0"} : HandleDeleteFile(fileId)

SpecPortal == Init /\ [][NextPortal]_vars

\* sessions of an OWNER and a CLIENT of p1 with the stats dialog used on p1
NextStats ==
    \/ Auth({"u1", "u3"})
    \/ Loads({DbProjects}, {<<>>}, {<<>>})
    \/ StatsFetches({<<>>, <<DbStats>>})
    \/ \E type \in {"revenue", "followers"}, value \in {"10", "20", ""},
          label \in {"Jan", "Feb", ""} :
           HandleUpdateStats("p1", type, value, label)
    \/ \E call \in Calls, ok \in BOOLEAN : SaveStatsDone(call, ok)

SpecStats == Init /\ [][NextStats]_vars

\* an OWNER session with notifications arriving for two channels and for a
\* task, and the channels opened
NextLedger ==
    \/ Auth({"u1"})
    \/ Loads({DbProjects}, {<<>>}, {<<>>})
    \/ \E n \in {<<"MESSAGE", "general">>, <<"MESSAGE", "press-kit">>, <<"TASK", Null>>} :
           AddNotification(n[1], n[2])
    \/ \E linkTo \in {"general", "press-kit"} : HandleClearChannelNotifications(linkTo)

SpecLedger == Init /\ [][NextLedger]_vars

\* the identities that search: an OWNER, a MANAGER with and without assigned
\* projects, a CLIENT of p1, and a GUEST of p1 with allowedChannels unset, empty
\* and naming 'general'
SearchIdentities ==
    LET owner == MappedUser("u1", ProfileRow("u1")[1])
        manager == MappedUser("u2", ProfileRow("u2")[1])
        client == MappedUser("u3", ProfileRow("u3")[1])
        guest == MappedUser("u4", ProfileRow("u4")[1])
    IN {owner, manager, Edited(manager, Some({"p1"}), Undefined), client, guest,
        Edited(guest, Undefined, Some({})), Edited(guest, Undefined, Some({"general"}))}

\* the id of the i-th task of p1
TaskId(i) ==
    <<"t1", "t2", "t3", "t4", "t5", "t6", "t7", "t8", "t9", "t10", "t11", "t12", "t13",
      "t14", "t15", "t16">>[i]

\* n tasks of p1 titled 'Alpha mix', then one of p2 and an internal one
SearchTasks(n) ==
    [i \in 1..n |-> [id |-> TaskId(i), title |-> "Alpha mix", projectId |-> "p1",
                     assigneeId |-> "u3", status |-> "TODO"]]
    \o << [id |-> "t-p2", title |-> "Alpha mix", projectId |-> "p2", assigneeId |-> "u2",
           status |-> "TODO"],
          [id |-> "t-int", title |-> "Alpha mix", projectId |-> "internal", assigneeId |-> "u2",
           status |-> "TODO"] >>

SearchFiles ==
    << [id |-> "f1", name |-> "alpha.wav", uploadedBy |-> "u3", projectId |-> "p1"],
       [id |-> "f2", name |-> "alpha.wav", uploadedBy |-> "u1", projectId |-> "p2"] >>

SearchMessages ==
    << [id |-> "m1", userId |-> "u3", content |-> "alpha?", timestamp |-> 1,
        room |-> "general", projectId |-> "p1"],
       [id |-> "m2", userId |-> "u3", content |-> "alpha?", timestamp |-> 1,
        room |-> "press-kit", projectId |-> "p1"],
       [id |-> "m3", userId |-> "u1", content |-> "alpha?", timestamp |-> 1,
        room |-> "general", projectId |-> "p2"],
       [id |-> "m4", userId |-> "u1", content |-> "alpha?", timestamp |-> 1,
        room |-> "general", projectId |-> "internal"] >>

SearchEvents ==
    << [id |-> "e1", title |-> "Alpha gig", projectId |-> "p1"],
       [id |-> "e2", title |-> "Alpha gig", projectId |-> "p2"],
       [id |-> "e3", title |-> "Alpha gig", projectId |-> "internal"] >>

\* a mounted session of one of the identities over stores that hold entities
\* of p1, of p2 and internal ones
InitSearch ==
    /\ currentUser \in SearchIdentities
    /\ isLoadingAuth = FALSE
    /\ isLoading = TRUE /\ isAuthenticated = FALSE /\ isDataLoaded = FALSE /\ toast = <<>>
    /\ users = <<>> /\ stats = <<>>
    /\ projects = DbProjects
    /\ \E n \in {0, 1, MaxMatching} : tasks = SearchTasks(n)
    /\ files = SearchFiles /\ messages = SearchMessages /\ events = SearchEvents
    /\ clientChannels = <<>> /\ notifications = <<>>
    /\ adminViewProject = <<>>
    /\ chatChannels = INITIAL_CHANNELS /\ activeChannel = "general"
    /\ supabaseUrl = "https://footstep.supabase.co" /\ supabaseAnonKey = "anon-key"
    /\ pending = {}
    /\ clock = 0
    /\ last = EnvStep("init")

\* the search box used with empty, blank, matching and matching-nothing queries
NextSearch ==
    \E query \in {"", " ", " \t", "alpha", "ALPHA", "alpha ", "Beta", "zz"} :
        HandleGlobalSearch(query)

SpecSearch == InitSearch /\ [][NextSearch]_vars

NewEvent == [id |-> "e1", title |-> "Alpha gig", projectId |-> "p1"]

\* an OWNER session in which projects are created and deleted while tasks,
\* files, events and stats of the projects are in the stores
NextOwner ==
    \/ Auth({"u1"})
    \/ Loads({DbProjects}, {<<>>, DbTasks}, {<<>>})
    \/ HandleCreateProject("Gamma")
    \/ \E call \in Calls, ok \in BOOLEAN : CreateProjectDone(call, ok)
    \/ \E call \in Calls, ok \in BOOLEAN : SaveNewStatsDone(call, ok)
    \/ \E pid \in {"p1", "n1"} : HandleDeleteProject(pid)
    \/ HandleUploadFile("p1")
    \/ HandleAddEvent(NewEvent)
    \/ HandleDeleteEvent("e1")

SpecOwner == Init /\ [][NextOwner]_vars

\* sessions of an OWNER and of a MANAGER in which project 'Alpha' is created
\* and the signed-in identity's assignedProjects is edited
NextCreateAlpha ==
    \/ Auth({"u1", "u2"})
    \/ Loads({<<>>, Tail(DbProjects)}, {<<>>}, {<<>>})
    \/ HandleCreateProject("Alpha")
    \/ \E call \in Calls, ok \in BOOLEAN : CreateProjectDone(call, ok)
    \/ \E call \in Calls, ok \in BOOLEAN : SaveNewStatsDone(call, ok)
    \/ \E ap \in {Some({"p2"}), Some({"n1"})} :
           HandleUpdateUser(Edited(currentUser, ap, Undefined))

SpecCreateAlpha == Init /\ [][NextCreateAlpha]_vars

\* sessions of an OWNER and a MANAGER on the dashboard: messages are sent in
\* the internal chat, notifications arrive, and the catch-up view is marked
\* as read
NextInbox ==
    \/ Auth({"u1", "u2"})
    \/ Loads({DbProjects}, {<<>>}, {<<>>})
    \/ Tick
    \/ HandleSend("alpha?")
    \/ \E call \in Calls : SendDelayDone(call)
    \/ AddNotification("TASK", Null)
    \/ HandleMarkAllAsRead

SpecInbox == Init /\ [][NextInbox]_vars

\* sessions of an OWNER and a MANAGER adding a task assigned to the OWNER and
\* a task assigned to a client
NextAssign ==
    \/ Auth({"u1", "u2"})
    \/ Loads({DbProjects}, {<<>>}, {<<>>})
    \/ \E assigneeId \in {"u1", "u3"} : HandleAddTask([NewTask EXCEPT !.assigneeId = assigneeId])
    \/ \E call \in Calls, ok \in BOOLEAN : AddTaskDone(call, ok)

SpecAssign == Init /\ [][NextAssign]_vars

\* an OWNER session in the internal chat: a second channel is created, the
\* channels are opened and messages are sent
NextChat ==
    \/ Auth({"u1"})
    \/ Loads({DbProjects}, {<<>>}, {<<>>})
    \/ Tick
    \/ HandleCreateChannel([id |-> "press", type |-> "CUSTOM"])
    \/ \E channelId \in {"general", "press"} : HandleChannelClick(channelId)
    \/ HandleSend("alpha?")
    \/ \E call \in Calls : SendDelayDone(call)

SpecChat == Init /\ [][NextChat]_vars

\* sign-in and sign-out events of an OWNER and a CLIENT, with the profile
\* queries, the initial fetches and the Log out button
NextSession ==
    \/ Auth({"u1", "u3"})
    \/ Loads({DbProjects}, {<<>>}, {<<>>})
    \/ StatsFetches({<<>>})
    \/ HandleLogout
    \/ \E call \in Calls, ok \in BOOLEAN : SignOutDone(call, ok)

SpecSession == Init /\ [][NextSession]_vars

\* the state after App's first render in a build whose provider URL and
\* public key are each unset, empty or set
InitStartup ==
    /\ currentUser = NoUser
    /\ isLoadingAuth = TRUE
    /\ isLoading = TRUE /\ isAuthenticated = FALSE /\ isDataLoaded = FALSE /\ toast = <<>>
    /\ users = <<>> /\ projects = <<>> /\ stats = <<>> /\ tasks = <<>>
    /\ events = <<>> /\ messages = <<>>
    /\ clientChannels = <<>> /\ files = <<>> /\ notifications = <<>>
    /\ adminViewProject = <<>>
    /\ chatChannels = INITIAL_CHANNELS /\ activeChannel = "general"
    /\ supabaseUrl \in {Null, "", "https://footstep.supabase.co"}
    /\ supabaseAnonKey \in {Null, "", "anon-key"}
    /\ pending = {}
    /\ clock = 0
    /\ last = EnvStep("init")

\* start-up, the Auth screen and the service functions in every such build;
\* the auth listener and the effects run in the configured one
NextStartup ==
    \/ MountEffect
    \/ AuthHandleSubmit
    \/ \E call \in Calls : SignInDone(call)
    \/ Auth({"u1"})
    \/ Loads({DbProjects}, {<<>>}, {<<>>})
    \/ \E fn \in ServiceFunctions : CallService(fn)
    \/ \E call \in Calls, answer \in {"null", "[]", "false", "row", "rows", "true"} :
           ServiceDone(call, answer)

SpecStartup == InitStartup /\ [][NextStartup]_vars

\* a MANAGER session of the variant that reports through toasts, after its
\* fetchData has settled (App.tsx:223-258): the stats store holds the rows
\* getProjectStats found, which may be none for a project
InitToast ==
    /\ currentUser = MappedUser("u2", ProfileRow("u2")[1])
    /\ isLoadingAuth = FALSE
    /\ isLoading = TRUE /\ isAuthenticated = FALSE /\ isDataLoaded = FALSE /\ toast = <<>>
    /\ projects = DbProjects
    /\ stats \in {<<>>, <<DbStats>>, <<EmptyStats("p2", "Beta")>>,
                  <<DbStats, EmptyStats("p2", "Beta")>>}
    /\ users = <<>> /\ tasks = <<>>
    /\ events = <<>> /\ messages = <<>>
    /\ clientChannels = <<>> /\ files = <<>> /\ notifications = <<>>
    /\ adminViewProject = <<>>
    /\ chatChannels = INITIAL_CHANNELS /\ activeChannel = "general"
    /\ supabaseUrl = "https://footstep.supabase.co" /\ supabaseAnonKey = "anon-key"
    /\ pending = {}
    /\ clock = 0
    /\ last = EnvStep("init")

\* stats of p1 and of p2 are saved, each save succeeding or failing
NextToast ==
    \/ \E p \in Range(DbProjects), value \in {"10", "20"} :
           ToastHandleUpdateStats([EmptyStats(p.id, p.name) EXCEPT
                                      !.revenue = <<Entry("revenue", "Feb", Number(value))>>])
    \/ \E call \in Calls, ok \in BOOLEAN : ToastSaveStatsDone(call, ok)

SpecToast == InitToast /\ [][NextToast]_vars

\* the OWNER session that follows the session of the CLIENT of p1, once its
\* collections are loaded: the stats fetch of the CLIENT is still in flight
InitStatsRace ==
    /\ currentUser = MappedUser("u1", ProfileRow("u1")[1])
    /\ isLoadingAuth = FALSE
    /\ isLoading = TRUE /\ isAuthenticated = FALSE /\ isDataLoaded = FALSE /\ toast = <<>>
    /\ projects = DbProjects
    /\ users = <<>> /\ stats = <<>> /\ tasks = <<>>
    /\ events = <<>> /\ messages = <<>>
    /\ clientChannels = <<>> /\ files = <<>> /\ notifications = <<>>
    /\ adminViewProject = <<>>
    /\ chatChannels = INITIAL_CHANNELS /\ activeChannel = "general"
    /\ supabaseUrl = "https://footstep.supabase.co" /\ supabaseAnonKey = "anon-key"
    /\ pending = {[kind |-> "getProjectStats", by |-> "u3", projectId |-> "p1"]}
    /\ clock = 0
    /\ last = [EnvStep("loadInitialData") EXCEPT !.arg = <<>>]

\* a project is created and stats are entered for the projects the dashboard
\* lists while the fetch settles
NextStatsRace ==
    \/ StatsFetches({<<DbStats>>})
    \/ \E project \in Range(visibleProjects(currentUser, projects)) :
           HandleUpdateStats(project.id, "revenue", "20", "Feb")
    \/ \E project \in Range(visibleProjects(currentUser, projects)), value \in {"20", "30"} :
           HandleUpdateStatsBeforeRender(project.id, "revenue", value, "Feb")
    \/ \E call \in Calls : SaveStatsDone(call, TRUE)
    \/ HandleCreateProject("Gamma")
    \/ \E call \in Calls : CreateProjectDone(call, TRUE)
    \/ \E call \in Calls : SaveNewStatsDone(call, TRUE)

SpecStatsRace == InitStatsRace /\ [][NextStatsRace]_vars

\* an OWNER session loads the tasks of p1 and opens a channel for it, and the
\* GUEST of p1 then uses what its portal offers
NextGuest ==
    \/ Auth({"u1", "u4"})
    \/ Loads({DbProjects}, {DbTasks}, {<<>>})
    \/ StatsFetches({<<>>})
    \/ \E project \in Range(DbProjects) : HandleOpenProject(project)
    \/ HandleCreateClientChannel("General", "p1")
    \/ HandleFileSelect("general")
    \/ \E call \in Calls : UploadDelayDone(call)
    \/ HandleCompleteTask("t1")
    \/ HandleDeleteFile("n1")

SpecGuest == Init /\ [][NextGuest]_vars

----------------------------------------------------------------------------
(* Properties.                                                             *)

\* C1: for a MANAGER identity and any contents of the projects store, every
\* project visibleProjects returns has its id in the identity's
\* assignedProjects; with assignedProjects unset it returns no project.
ManagerSeesAssignedOnly ==
    currentUser.role = MANAGER =>
        \A p \in Range(visibleProjects(currentUser, projects)) :
            OptIncludes(currentUser.assignedProjects, p.id)

\* a MANAGER assigned to p1 alone, with p1 and p2 in the store, is shown p1
ManagerShownAssignedProject ==
    /\ currentUser.role = MANAGER
    /\ currentUser.assignedProjects = Some({"p1"})
    /\ projects = DbProjects
    /\ visibleProjects(currentUser, projects) = <<DbProjects[1]>>

\* C2: for an identity with role CLIENT and sub-role GUEST, every room the
\* client portal offers is a channel of the identity's project and is named
\* in the identity's allowedChannels, whatever the client-channel store holds;
\* with allowedChannels unset no room is offered.
GuestRoomsWithinAllowed ==
    (View = "portal" /\ currentUser.clientRole = GUEST) =>
        LET project == ClientProject(currentUser, projects)[1]
        IN \A c \in Range(rooms(currentUser, project, clientChannels)) :
               /\ c.projectId = currentUser.projectId
               /\ OptIncludes(currentUser.allowedChannels, c.id)

\* C3: a CLIENT identity whose projectId is absent, or matches no project of
\* the store, is shown an explicit incomplete-profile state; no render reads a
\* field of an absent project.
ClientWithoutProjectShownIncomplete ==
    (/\ ~isLoadingAuth
     /\ currentUser # NoUser
     /\ currentUser.role = CLIENT
     /\ ClientProject(currentUser, projects) = <<>>)
    => View = "incomplete profile"

\* C4: handleUpdateStats, handleCreateProject and handleAddTask do not apply a
\* mutation partially: a step of one of them taken before the provider has
\* answered, or on an answer of failure, leaves every in-memory store as it
\* was; the stores change only on an answer of success.
NoPartialMutation ==
    [][(/\ last'.op \in {"handleUpdateStats", "handleCreateProject", "handleAddTask"}
        /\ last'.res \in {"called", "failed", "stats failed"})
       => stores' = stores]_vars


\* C5 as claimed: handleDeleteProject invoked by a MANAGER or a CLIENT leaves
\* the projects store unchanged, and a project leaves the store only through
\* a delete issued by an OWNER.
ProjectLeavesOnlyByOwnerDelete ==
    [][/\ (last'.op = "handleDeleteProject" /\ last'.role \in {MANAGER, CLIENT})
          => projects' = projects
       /\ (\E p \in Range(projects) : p \notin Range(projects'))
          => (last'.op = "handleDeleteProject" /\ last'.role = OWNER)]_vars

\* C5: handleDeleteProject invoked by a MANAGER or a CLIENT leaves the
\* projects store unchanged; a project leaves the store only through a delete
\* issued by an OWNER, or when a settled loadInitialData replaces the store by
\* the rows it fetched.
ProjectLeavesByOwnerDeleteOrReload ==
    [][/\ (last'.op = "handleDeleteProject" /\ last'.role \in {MANAGER, CLIENT})
          => projects' = projects
       /\ (\E p \in Range(projects) : p \notin Range(projects'))
          => \/ (last'.op = "handleDeleteProject" /\ last'.role = OWNER)
             \/ last'.op = "loadInitialData"]_vars

\* a MANAGER has asked to delete p1, and p1 is still in the store
ManagerDeleteRefused ==
    /\ last.op = "handleDeleteProject" /\ last.role = MANAGER /\ last.arg = "p1"
    /\ \E p \in Range(projects) : p.id = "p1"

\* C6: handleCreateProject, handleAddTask, handleAddUser and handleUpdateStats
\* invoked by a CLIENT return before any provider call is issued and leave
\* every in-memory store unchanged.
ClientCreateDenied ==
    [][(/\ last'.op \in {"handleCreateProject", "handleAddTask", "handleAddUser",
                         "handleUpdateStats"}
        /\ last'.role = CLIENT)
       => (stores' = stores /\ pending' = pending /\ clock' = clock)]_vars

\* a CLIENT has called handleUpdateStats for a project whose stats an OWNER
\* had written before
ClientUpdateStatsRefused ==
    /\ last.op = "handleUpdateStats" /\ last.role = CLIENT /\ last.res = "denied"
    /\ currentUser.role = CLIENT
    /\ \E st \in Range(stats) : st.projectId = currentUser.projectId

\* C7: a CLIENT completes only its own tasks: every task that a
\* handleCompleteTask step of a CLIENT turns to DONE is assigned to that CLIENT.
ClientCompletesOwnTasksOnly ==
    [][(last'.op = "handleCompleteTask" /\ last'.role = CLIENT)
       => \A i \in DOMAIN tasks :
              (tasks[i].status # "DONE" /\ tasks'[i].status = "DONE")
              => tasks'[i].assigneeId = last'.uid]_vars

UpsertLeavesOneEntryPerLabel ==
    [][(last'.op = "handleUpdateStats" /\ last'.res = "called")
       => LET a == last'.arg
              before == SeriesOf(stats, a.projectId, a.type)
              after == SeriesOf(stats', a.projectId, a.type)
              hit(e) == EntryLabel(a.type, e) = a.label
              other(e) == EntryLabel(a.type, e) # a.label
          IN /\ SelectSeq(after, hit) = <<Entry(a.type, a.label, Number(a.value))>>
             /\ SelectSeq(after, other) = SelectSeq(before, other)]_vars

\* revenue of p1 held Feb = 10 next to Jan, and a second call for Feb with
\* "20" has left Feb = 20 and Jan as it was
RevenueReplacedBySecondCall ==
    /\ last.op = "handleUpdateStats" /\ last.res = "called"
    /\ last.arg.type = "revenue" /\ last.arg.label = "Feb" /\ last.arg.value = "20"
    /\ last.arg.before = <<Entry("revenue", "Jan", 10), Entry("revenue", "Feb", 10)>>
    /\ SeriesOf(stats, "p1", "revenue") = <<Entry("revenue", "Jan", 10), Entry("revenue", "Feb", 20)>>

\* C10: after handleClearChannelNotifications(channelId) no notification of
\* the ledger has linkTo = channelId, and the notifications with another
\* linkTo are all there, unchanged and in their order.
ClearRemovesChannelOnly ==
    [][last'.op = "handleClearChannelNotifications"
       => LET other(n) == n.linkTo # last'.arg
          IN /\ \A n \in Range(notifications') : n.linkTo # last'.arg
             /\ notifications' = SelectSeq(notifications, other)]_vars

\* 'general' has been cleared out of a ledger that held it, and the
\* notifications of 'press-kit' and of a task are left in their order
GeneralClearedOthersKept ==
    /\ last.op = "handleClearChannelNotifications" /\ last.arg = "general"
    /\ last.res = "cleared"
    /\ notifications = <<[type |-> "MESSAGE", linkTo |-> "press-kit"],
                         [type |-> "TASK", linkTo |-> Null]>>

SearchResultsWithinVisibleData ==
    [][last'.op = "handleGlobalSearch"
       => LET R == Range(last'.arg.results)
              assigned == currentUser.assignedProjects
          IN /\ currentUser.role = CLIENT
                => \A r \in R : /\ r.type \in {"TASK", "FILE", "MESSAGE", "EVENT"}
                                /\ r.data.projectId = currentUser.projectId
             /\ currentUser.role = MANAGER
                => \A r \in R : IF r.type = "PROJECT"
                                THEN OptIncludes(assigned, r.data.id)
                                ELSE \/ r.data.projectId = "internal"
                                     \/ OptIncludes(assigned, r.data.projectId)
             /\ currentUser.clientRole = GUEST
                => \A r \in R : r.type = "MESSAGE"
                                => OptIncludes(currentUser.allowedChannels, r.data.room)]_vars

\* C13: for an OWNER identity the visible projects, stats, users, tasks,
\* files and events each equal the full store, after any sequence of create
\* and delete operations, also when a deleted project still has tasks, files,
\* events or stats.
OwnerSeesEverything ==
    currentUser.role = OWNER =>
        /\ visibleProjects(currentUser, projects) = projects
        /\ visibleStats(currentUser, projects, stats) = stats
        /\ visibleUsers(currentUser, projects, users) = users
        /\ visibleTasks(currentUser, projects, tasks) = tasks
        /\ visibleFiles(currentUser, projects, files) = files
        /\ visibleEvents(currentUser, projects, events) = events

\* C14: when handleCreateProject('Alpha') of an OWNER has succeeded,
\* visibleProjects of an OWNER contains the new project, named 'Alpha', and
\* visibleProjects of a MANAGER whose assignedProjects does not include the
\* new project's id does not contain it.
CreatedProjectShownToOwnerNotToUnassignedManager ==
    [][(last'.op = "handleCreateProject" /\ last'.res = "saved" /\ last'.role = OWNER)
       => LET id == last'.arg
              owner == MappedUser("u1", ProfileRow("u1")[1])
              manager == MappedUser("u2", ProfileRow("u2")[1])
              shown(identity) == {p.id : p \in Range(visibleProjects(identity, projects'))}
          IN /\ \E p \in Range(visibleProjects(owner, projects')) :
                    p.id = id /\ p.name = "Alpha"
             /\ currentUser'.role = OWNER => id \in shown(currentUser')
             /\ \A ap \in {Undefined, Some({}), Some({"p2"}), Some({"n1"}), Some({"p2", "n1"})} :
                    ~OptIncludes(ap, id) => id \notin shown(Edited(manager, ap, Undefined))
             /\ (/\ currentUser'.role = MANAGER
                 /\ ~OptIncludes(currentUser'.assignedProjects, id))
                => id \notin shown(currentUser')]_vars

\* the OWNER's createProject('Alpha') has succeeded while a MANAGER assigned to
\* p2 alone is signed in: the new project is in the store and the MANAGER is
\* not shown it
AlphaCreatedUnseenByManager ==
    /\ last.op = "handleCreateProject" /\ last.res = "saved" /\ last.role = OWNER
    /\ \E p \in Range(projects) : p.id = last.arg /\ p.name = "Alpha"
    /\ currentUser.role = MANAGER /\ currentUser.assignedProjects = Some({"p2"})
    /\ last.arg \notin visibleProjectIds(currentUser, projects)

\* C15: the unread list of the catch-up view holds exactly the messages whose
\* sender is not the current identity and whose timestamp is strictly later
\* than the identity's last-seen; with no last-seen it holds every message of
\* the others.
UnreadIsOthersLaterThanLastSeen ==
    View = "dashboard" =>
        LET unread == unreadMessages(currentUser, messages)
            expected(m) == /\ m.userId # currentUser.id
                           /\ IsSet(currentUser.lastSeen) => m.timestamp > currentUser.lastSeen[1]
        IN /\ Range(unread) = {m \in Range(messages) : expected(m)}
           /\ Len(unread) = Cardinality({i \in DOMAIN messages : expected(messages[i])})

\* the store holds a message of the identity and one of somebody else, and
\* the unread list is the one of somebody else
UnreadHoldsTheOthersMessage ==
    /\ View = "dashboard"
    /\ Len(messages) = 2
    /\ \E i, j \in DOMAIN messages :
           /\ messages[i].userId = currentUser.id
           /\ messages[j].userId # currentUser.id
           /\ unreadMessages(currentUser, messages) = <<messages[j]>>

\* C16: right after handleMarkAllAsRead the notifications store is empty and
\* no message of the store is unread; and for an identity that stays signed
\* in, a message is unread after a step only if it was unread before the step
\* or arrived with it.
MarkedReadStaysRead ==
    [][/\ last'.op = "handleMarkAllAsRead"
          => /\ notifications' = <<>>
             /\ unreadMessages(currentUser', messages') = <<>>
       /\ (currentUser # NoUser /\ currentUser'.id = currentUser.id)
          => \A m \in Range(unreadMessages(currentUser', messages')) :
                 \/ m \in Range(unreadMessages(currentUser, messages))
                 \/ m \notin Range(messages)]_vars

\* C17: when handleAddTask has saved a task whose assigneeId is the id of the
\* identity that called it (the current identity of the handler), the
\* notifications store has exactly one new notification, of type TASK; no
\* notification is added when the task is assigned to somebody else, when the
\* save fails, or by the step that issues the save.
TaskNotificationForOwnAssignmentOnly ==
    [][last'.op = "handleAddTask"
       => IF last'.res = "saved" /\ last'.arg.assigneeId = last'.uid
          THEN /\ Len(notifications') = Len(notifications) + 1
               /\ SubSeq(notifications', 1, Len(notifications)) = notifications
               /\ notifications'[Len(notifications')].type = "TASK"
          ELSE notifications' = notifications]_vars

\* the OWNER's task assigned to the OWNER has been saved and the ledger
\* holds the one TASK notification
OwnTaskSavedAndAnnounced ==
    /\ last.op = "handleAddTask" /\ last.res = "saved"
    /\ last.uid = "u1" /\ last.arg.assigneeId = "u1"
    /\ currentUser.id = "u1"
    /\ tasks = <<last.arg>>
    /\ notifications = <<[type |-> "TASK", linkTo |-> Null]>>

\* C18: when a message is appended to the messages store for a channel other
\* than the one the signed-in viewer has open, the notifications store holds
\* a MESSAGE notification whose linkTo is the id of the message's channel.
MessageElsewhereIsNotified ==
    [][(/\ last'.op = "handleSendMessage"
        /\ currentUser' # NoUser
        /\ last'.arg.room # activeChannel')
       => \E n \in Range(notifications') : n.type = "MESSAGE" /\ n.linkTo = last'.arg.room]_vars

\* C19: the session holder goes from null to an identity only when a sign-in
\* completes (its profile query settles), and it is null once a sign-out
\* event has been processed and stays null until a later sign-in event: the
\* step that processes SIGNED_OUT leaves currentUser null, and so does the
\* step after it unless that step is a SIGNED_IN event, whatever profile
\* queries are in flight.
SignedOutUntilNextSignIn ==
    [][/\ (currentUser = NoUser /\ currentUser' # NoUser) => last'.op = "profile"
       /\ last'.op = "SIGNED_OUT" => currentUser' = NoUser
       /\ (last.op = "SIGNED_OUT" /\ last'.op # "SIGNED_IN") => currentUser' = NoUser]_vars

\* C20: with the provider URL or the public key absent, start-up does not
\* crash: no operation on the provider client is attempted, the first effect
\* sets the loading flag to false and it stays false, currentUser stays null,
\* and every databaseService function returns its empty value (null, [] or
\* false).
UnconfiguredStartsIdle ==
    [][(supabaseUrl \in {Null, ""} \/ supabaseAnonKey \in {Null, ""})
       => /\ pending' = {}
          /\ last'.res \notin {"called", "listening"}
          /\ currentUser' = NoUser
          /\ ViewOf(isLoadingAuth', currentUser', projects') # "crash"
          /\ last'.op = "mount" => ~isLoadingAuth'
          /\ ~isLoadingAuth => ~isLoadingAuth'
          /\ last'.op \in ServiceFunctions
             => last'.res = (CASE last'.op \in {"fetchAllUsers", "fetchAllProjects",
                                               "fetchAllTasks"} -> "[]"
                               [] last'.op \in {"saveProjectStats", "updateUserInDB",
                                               "deleteUserFromDB", "updateTaskInDB",
                                               "handleDeleteFile"} -> "false"
                               [] OTHER -> "null")]_vars

\* the URL is set and the public key is not: the first effect has let the
\* loading flag fall, the Auth screen is shown, and fetchAllProjects has
\* returned []
KeyMissingFetchReturnsEmpty ==
    /\ supabaseUrl = "https://footstep.supabase.co" /\ supabaseAnonKey = Null
    /\ ~isLoadingAuth /\ View = "auth"
    /\ last.op = "fetchAllProjects" /\ last.res = "[]"
    /\ pending = {}

\* C21: a GUEST is read-only on project-level data: no step taken for a CLIENT
\* identity whose sub-role is GUEST changes the tasks or the files of its
\* project.
GuestLeavesTasksAndFilesAlone ==
    [][(/\ last'.role = CLIENT /\ last'.uid # Null
        /\ ProfileRow(last'.uid) # Undefined
        /\ ProfileRow(last'.uid)[1].client_role = GUEST)
       => LET own(e) == e.projectId = ProfileRow(last'.uid)[1].project_id
          IN /\ Filter(tasks', own) = Filter(tasks, own)
             /\ Filter(files', own) = Filter(files, own)]_vars

\* C22: fetch/add race: when loadInitialData settles, the tasks store is
\* replaced by the rows the fetch returned, so a task that handleAddTask saved
\* and added while the fetch was in flight is absent afterwards.
FetchReplacesTasksStore ==
    [][last'.op = "loadInitialData" => tasks' = last'.arg]_vars

\* handleAddTask has saved the task t2 and announced it to its assignee, the
\* fetch started at sign-in has settled after that, and t2 is not in the
\* tasks store
SavedTaskGoneAfterFetch ==
    /\ last.op = "loadInitialData"
    /\ \E n \in Range(notifications) : n.type = "TASK"
    /\ \A t \in Range(tasks) : t.id # NewTask.id

\* C23: stale fetch after sign-out: the SIGNED_OUT event leaves a collection
\* fetch in flight, and when the fetch settles while nobody is signed in its
\* rows are written into the stores all the same, so currentUser is null
\* while the stores hold what was fetched for the previous identity.
StaleFetchWritesAfterSignOut ==
    [][/\ last'.op = "SIGNED_OUT"
          => \A c \in pending : c.kind = "loadInitialData" => c \in pending'
       /\ (last'.op = "loadInitialData" /\ currentUser = NoUser)
          => /\ currentUser' = NoUser
             /\ tasks' = last'.arg
             /\ projects' = DbProjects]_vars

\* nobody is signed in, the fetch of the signed-out OWNER has just settled and
\* the projects store holds the rows it returned
FetchedRowsHeldWhileSignedOut ==
    /\ currentUser = NoUser /\ ~isLoadingAuth
    /\ last.op = "loadInitialData"
    /\ projects = DbProjects

----------------------------------------------------------------------------
(* The self-contained variant of the App (src/unnamed/part_000).  The file *)
(* pins isSupabaseConfigured to false and stubs the provider client         *)
(* (part_000:123-131); the build that has lib/supabaseClient in their place *)
(* delivers auth events and is modelled beside it.  The database functions  *)
(* are the ones of the file (part_000:160-213), which always succeed.       *)

MOCK_USER == [id |-> "mock-admin", role |-> "ADMIN", clientRole |-> GUEST, projectId |-> Null]
MOCK_CLIENT == [id |-> "client-1", role |-> CLIENT, clientRole |-> "PRIMARY", projectId |-> "proj-1"]
MOCK_PROJECTS == << [id |-> "proj-1", name |-> "Alpha Launch"],
                   [id |-> "proj-2", name |-> "Beta Expansion"] >>
MOCK_TASKS == << [id |-> "t1", projectId |-> "proj-1", isCompleted |-> FALSE],
                [id |-> "t2", projectId |-> "proj-2", isCompleted |-> TRUE] >>
MOCK_CHANNELS == << [id |-> "general", name |-> "Allmant", type |-> "GENERAL"] >>

\* fetchUserProfile of the file: the two known ids have a profile
MockFetchUserProfile(userId) ==
    CASE userId = "mock-admin" -> Some(MOCK_USER)
      [] userId = "client-1" -> Some(MOCK_CLIENT)
      [] OTHER -> Undefined

\* getProjectStats of the file: only proj-1 has a row
MockGetProjectStats(projectId) ==
    IF projectId = "proj-1" THEN Some(EmptyStats("proj-1", "Alpha Launch")) ELSE Undefined

\* the test that puts the spinner in place of everything else
RenderGate == isLoading \/ (isAuthenticated /\ ~isDataLoaded)

\* what the App of the file renders
MockView ==
    CASE RenderGate -> "loading"
      [] currentUser = NoUser -> "auth"
      [] currentUser.role = CLIENT /\ currentUser.projectId = Null -> "profile error"
      [] currentUser.role \in {"ADMIN", MANAGER} -> "dashboard"
      [] OTHER -> "portal"

ShowToast(message, type) == Some([message |-> message, type |-> type])

\* the effect that registers the auth listener; without the configuration it
\* drops the loading flag, warns and registers nothing
MockMountEffect ==
    /\ last.op = "init"
    /\ IF ~isSupabaseConfigured
       THEN /\ isLoading' = FALSE
            /\ toast' = ShowToast("mock mode", "error")
            /\ last' = [EnvStep("mount") EXCEPT !.res = "not configured"]
       ELSE /\ last' = [EnvStep("mount") EXCEPT !.res = "listening"]
            /\ UNCHANGED <<isLoading, toast>>
    /\ UNCHANGED <<currentUser, isLoadingAuth, stores, adminViewProject, chat, config,
                   isAuthenticated, isDataLoaded, pending, clock>>

\* the auth listener is called with an event; `uid` is the user of the
\* session, Null without one.  SIGNED_IN and INITIAL_SESSION with a session
\* call loadInitialData, which runs up to await fetchUserProfile(user.id)
MockAuthEvent(event, uid) ==
    /\ isSupabaseConfigured /\ last.op # "init"
    /\ IF event \in {"SIGNED_IN", "INITIAL_SESSION"} /\ uid # Null
       THEN LET call == [kind |-> "loadInitialData", by |-> uid, step |-> "profile"]
            IN /\ Room(pending, {call})
               /\ pending' = Issue(pending, call)
               /\ isLoading' = TRUE
               /\ UNCHANGED <<currentUser, isAuthenticated>>
       ELSE IF event = "SIGNED_OUT"
       THEN /\ currentUser' = NoUser
            /\ isAuthenticated' = FALSE
            /\ isLoading' = FALSE
            /\ UNCHANGED pending
       ELSE /\ isLoading' = FALSE
            /\ UNCHANGED <<currentUser, isAuthenticated, pending>>
    /\ last' = [EnvStep(event) EXCEPT !.uid = uid]
    /\ UNCHANGED <<isLoadingAuth, stores, adminViewProject, chat, config, isDataLoaded,
                   toast, clock>>

\* handleLogin, called by a button of the Auth screen with a made-up profile
MockHandleLogin(profile) ==
    /\ last.op # "init" /\ MockView = "auth"
    /\ currentUser' = profile
    /\ isAuthenticated' = TRUE
    /\ toast' = ShowToast("Valkommen", "success")
    /\ last' = [op |-> "handleLogin", role |-> profile.role, uid |-> profile.id,
                arg |-> Null, res |-> "done"]
    /\ UNCHANGED <<isLoadingAuth, stores, adminViewProject, chat, config, isLoading,
                   isDataLoaded, pending, clock>>

\* what handleLogout sets once supabase.auth.signOut() is behind it
MockSignedOut ==
    /\ currentUser' = NoUser
    /\ isAuthenticated' = FALSE
    /\ isLoading' = FALSE
    /\ toast' = ShowToast("Du har loggats ut.", "success")
    /\ users' = <<>> /\ projects' = MOCK_PROJECTS /\ tasks' = MOCK_TASKS /\ stats' = <<>>
    /\ events' = <<>> /\ messages' = <<>> /\ chatChannels' = MOCK_CHANNELS
    /\ clientChannels' = <<>> /\ files' = <<>> /\ notifications' = <<>>
    /\ isDataLoaded' = FALSE

\* handleLogout, from the button of the dashboard or the portal: up to the
\* await in the configured build, to its end in the other
MockHandleLogout ==
    /\ last.op # "init" /\ MockView \in {"dashboard", "portal"}
    /\ IF isSupabaseConfigured
       THEN LET call == [kind |-> "signOut", by |-> currentUser.id]
            IN /\ Room(pending, {call})
               /\ pending' = Issue(pending, call)
               /\ isLoading' = TRUE
               /\ UNCHANGED <<currentUser, stores, chatChannels, isAuthenticated,
                              isDataLoaded, toast>>
       ELSE /\ MockSignedOut
            /\ UNCHANGED pending
    /\ last' = Step("handleLogout", Null, "called")
    /\ UNCHANGED <<isLoadingAuth, adminViewProject, activeChannel, config, clock>>

\* supabase.auth.signOut() settles and handleLogout runs to its end
MockSignOutDone(call) ==
    /\ call \in Calls /\ call.kind = "signOut"
    /\ pending' = Settle(pending, call)
    /\ MockSignedOut
    /\ last' = [EnvStep("handleLogout") EXCEPT !.uid = call.by, !.res = "signed out"]
    /\ UNCHANGED <<isLoadingAuth, adminViewProject, activeChannel, config, clock>>

\* loadInitialData of the configured build goes on after one of its awaits:
\* the profile, the projects and users, then the tasks (ADMIN, MANAGER) or
\* the stats and the tasks of the project (CLIENT with a project).  Without a
\* profile it calls handleLogout, does not await it, and drops the loading flag.
MockLoadStep(call) ==
    /\ call \in Calls /\ call.kind = "loadInitialData"
    /\ LET rest == Settle(pending, call)
           profile == MockFetchUserProfile(call.by)
           next(step) == [call EXCEPT !.step = step]
           manages == profile[1].role \in {"ADMIN", MANAGER}
       IN CASE call.step = "profile" /\ profile = Undefined ->
                 /\ Room(rest, {[kind |-> "signOut", by |-> call.by]})
                 /\ pending' = Issue(rest, [kind |-> "signOut", by |-> call.by])
                 /\ isLoading' = FALSE
                 /\ UNCHANGED <<currentUser, users, projects, tasks, stats, isDataLoaded>>
            [] call.step = "profile" /\ profile # Undefined ->
                 /\ Room(rest, {next("collections")})
                 /\ pending' = Issue(rest, next("collections"))
                 /\ currentUser' = profile[1]
                 /\ UNCHANGED <<users, projects, tasks, stats, isLoading, isDataLoaded>>
            [] call.step = "collections" ->
                 /\ projects' = MOCK_PROJECTS
                 /\ users' = <<MOCK_USER, MOCK_CLIENT>>
                 /\ IF manages \/ profile[1].projectId # Null
                    THEN /\ Room(rest, {next(IF manages THEN "tasks" ELSE "stats")})
                         /\ pending' = Issue(rest, next(IF manages THEN "tasks" ELSE "stats"))
                         /\ UNCHANGED <<isLoading, isDataLoaded>>
                    ELSE /\ pending' = rest
                         /\ isDataLoaded' = TRUE
                         /\ isLoading' = FALSE
                 /\ UNCHANGED <<currentUser, tasks, stats>>
            [] call.step = "stats" ->
                 /\ Room(rest, {next("tasks")})
                 /\ pending' = Issue(rest, next("tasks"))
                 /\ stats' = IF MockGetProjectStats(profile[1].projectId) = Undefined
                             THEN stats
                             ELSE MockGetProjectStats(profile[1].projectId)
                 /\ UNCHANGED <<currentUser, users, projects, tasks, isLoading, isDataLoaded>>
            [] call.step = "tasks" ->
                 /\ pending' = rest
                 /\ LET own(t) == t.projectId = profile[1].projectId
                    IN tasks' = IF manages THEN MOCK_TASKS ELSE Filter(MOCK_TASKS, own)
                 /\ isDataLoaded' = TRUE
                 /\ isLoading' = FALSE
                 /\ UNCHANGED <<currentUser, users, projects, stats>>
    /\ last' = [EnvStep("loadInitialData") EXCEPT !.uid = call.by, !.res = call.step]
    /\ UNCHANGED <<isLoadingAuth, events, messages, clientChannels, files, notifications,
                   adminViewProject, chat, config, isAuthenticated, toast, clock>>

\* the toast closes, by its button or after its five seconds; it is rendered
\* with the dashboard and the portal only
MockCloseToast ==
    /\ MockView \in {"dashboard", "portal"} /\ toast # Undefined
    /\ toast' = Undefined
    /\ last' = Step("closeToast", Null, "done")
    /\ UNCHANGED <<currentUser, isLoadingAuth, stores, adminViewProject, chat, config,
                   isLoading, isAuthenticated, isDataLoaded, pending, clock>>

\* the file as written (no configuration) and the configured build, before
\* the first effect has run
InitMock ==
    /\ currentUser = NoUser
    /\ isLoadingAuth = TRUE
    /\ isLoading = TRUE /\ isAuthenticated = FALSE /\ isDataLoaded = FALSE /\ toast = <<>>
    /\ users = <<>> /\ projects = MOCK_PROJECTS /\ stats = <<>> /\ tasks = MOCK_TASKS
    /\ events = <<>> /\ messages = <<>>
    /\ clientChannels = <<>> /\ files = <<>> /\ notifications = <<>>
    /\ adminViewProject = <<>>
    /\ chatChannels = MOCK_CHANNELS /\ activeChannel = "general"
    /\ supabaseUrl \in {Null, "https://footstep.supabase.co"}
    /\ supabaseAnonKey = "anon-key"
    /\ pending = {}
    /\ clock = 0
    /\ last = EnvStep("init")

MockLoadSteps == \E call \in Calls : MockLoadStep(call)
MockSignOuts == \E call \in Calls : MockSignOutDone(call)

NextMock ==
    \/ MockMountEffect
    \/ \E event \in {"SIGNED_IN", "INITIAL_SESSION", "SIGNED_OUT", "TOKEN_REFRESHED"},
          uid \in {Null, "mock-admin", "client-1", "u9"} : MockAuthEvent(event, uid)
    \/ MockLoadSteps
    \/ \E profile \in {MOCK_USER, MOCK_CLIENT} : MockHandleLogin(profile)
    \/ MockHandleLogout
    \/ MockSignOuts
    \/ MockCloseToast

SpecMock == InitMock /\ [][NextMock]_vars

\* the effect after the first render runs, and an awaited promise of the
\* file's own functions settles; auth events and clicks are up to the
\* environment
SpecMockLive ==
    /\ SpecMock
    /\ WF_vars(MockMountEffect)
    /\ WF_vars(MockLoadSteps)
    /\ WF_vars(MockSignOuts)

\* C28: in the self-contained variant the application eventually leaves the
\* loading state after a login: once handleLogin has set the identity, a
\* state is reached in which the render gate is false and the dashboard or
\* the client portal is shown.
LoginLeavesLoading ==
    (last.op = "handleLogin") ~> (~RenderGate /\ MockView \in {"dashboard", "portal"})

\* an OWNER and a CLIENT session whose queries the provider answers with rows,
\* with not-found or with another error
NextFetch ==
    \/ Auth({"u1", "u3"})
    \/ \E call \in Calls, po, to \in {"ok", "error"} :
           LoadInitialDataDone(call, fetchAll(po, DbProjects), fetchAll(to, DbTasks), <<>>)
    \/ \E call \in Calls, outcome \in {"ok", "PGRST116", "error"} :
           StatsFetchDone(call, getProjectStats(outcome, DbStats))
    \/ HandleUpdateStats("p1", "revenue", "10", "Jan")
    \/ \E call \in Calls, outcome \in {"ok", "error"} :
           SaveStatsDone(call, saveProjectStats(outcome))

SpecFetch == Init /\ [][NextFetch]_vars

\* C26: no databaseService function throws: a not-found single-row query
\* yields null and any other provider error yields the function's empty
\* value (null, [] or false), and the caller that receives the empty value
\* leaves the store it would have written as it was.
ProviderErrorLeavesStoresAlone ==
    [][\A call \in Calls :
         /\ \A outcome \in {"PGRST116", "error"} :
                StatsFetchDone(call, getProjectStats(outcome, DbStats)) => stats' = stats
         /\ SaveStatsDone(call, saveProjectStats("error")) => stats' = stats
         /\ \A pd \in {<<>>, DbProjects} :
                LoadInitialDataDone(call, pd, fetchAll("error", DbTasks), <<>>) => tasks' = tasks
         /\ \A td \in {<<>>, DbTasks} :
                LoadInitialDataDone(call, fetchAll("error", DbProjects), td, <<>>)
                    => projects' = projects]_vars

\* an OWNER opens a project and gives p2 a room; the OWNER and the CLIENT
\* account of p2 then write in the portal
NextClientSend ==
    \/ Auth({"u1", "u5"})
    \/ Loads({DbProjects}, {<<>>}, {<<>>})
    \/ StatsFetches({<<>>})
    \/ \E project \in Range(DbProjects) : HandleOpenProject(project)
    \/ HandleCreateClientChannel("General", "p2")
    \/ PortalHandleSend("alpha", "general")
    \/ \E call \in Calls : SendDelayDone(call)

SpecClientSend == Init /\ [][NextClientSend]_vars

\* C29: every message appended by handleSendMessage for a CLIENT sender
\* carries the project the sender is assigned to in its profile; a CLIENT
\* never produces a message tagged with another project.
ClientMessageCarriesOwnProject ==
    [][(Len(messages') = Len(messages) + 1 /\ last'.role = CLIENT)
       => LET m == messages'[Len(messages')]
          IN /\ IsSet(ProfileRow(m.userId))
             /\ m.projectId = ProfileRow(m.userId)[1].project_id]_vars

\* the CLIENT of p2 has written in the portal and the message is stored
ClientOfBetaHasWritten ==
    /\ last.op = "handleSendMessage" /\ last.role = CLIENT /\ last.uid = "u5"
    /\ messages # <<>>
    /\ messages[Len(messages)].projectId = "p2"

\* an OWNER creates a project, opens projects one after the other and adds,
\* renames and deletes rooms in their portals
NextChannels ==
    \/ Auth({"u1"})
    \/ Loads({DbProjects}, {<<>>}, {<<>>})
    \/ HandleCreateProject("Gamma")
    \/ \E call \in Calls : CreateProjectDone(call, TRUE)
    \/ \E call \in Calls : SaveNewStatsDone(call, TRUE)
    \/ \E project \in Range(projects) : HandleOpenProject(project)
    \/ HandleBackToDashboard
    \/ \E pid \in {"p1", "p2", "n1"} : HandleCreateClientChannel("Press Kit", pid)
    \/ \E cid \in {"general", "press-kit"} : HandleUpdateClientChannel(cid, "Beta")
    \/ \E cid \in {"general", "press-kit"} : HandleDeleteClientChannel(cid)

SpecChannels == Init /\ [][NextChannels]_vars

\* C30: renaming or deleting a client channel of one project leaves the
\* client channels of every other project unchanged, after any sequence of
\* handleCreateProject and handleCreateClientChannel calls, channels created
\* with the same name in two projects included.
ChannelEditLeavesOtherProjectsAlone ==
    [][last'.op \in {"handleUpdateClientChannel", "handleDeleteClientChannel"}
       => LET other(c) == c.projectId # last'.arg.projectId
          IN Filter(clientChannels', other) = Filter(clientChannels, other)]_vars

\* C24: stats are one-to-one with projects: after any sequence and
\* interleaving of handleCreateProject, handleUpdateStats and stats-fetch
\* completions the stats store holds at most one entry per projectId.
OneStatsEntryPerProject ==
    \A i, j \in DOMAIN stats : stats[i].projectId = stats[j].projectId => i = j

\* C27: handleUpdateStats for project P changes only P's stats entry: under
\* every interleaving with stats-fetch completions and project creation the
\* entries of every other project are the same before and after the call.
UpdateStatsLeavesOtherProjectsAlone ==
    [][(last'.op = "handleUpdateStats" /\ last'.res = "called")
       => LET other(s) == s.projectId # last'.arg.projectId
          IN Filter(stats', other) = Filter(stats, other)]_vars

\* C25: on success a handler merges the saved entity into its store: after
\* saveProjectStats, addTaskToDB or createProject has reported success inside
\* a command handler the store contains the saved entity, also when it held
\* no entry for that project or id before.
SavedEntityIsInItsStore ==
    [][last'.res = "saved"
       => CASE last'.op = "handleUpdateStats" -> last'.arg \in Range(stats')
            [] last'.op = "handleAddTask" -> last'.arg \in Range(tasks')
            [] last'.op = "handleCreateProject" ->
                   \E p \in Range(projects') : p.id = last'.arg
            [] OTHER -> TRUE]_vars

====
